---- MODULE Spec2Model ----
(***************************************************************************)
(* Duplicate-review reconciliation engine (SimilarityGroupView and the     *)
(* FileStatus context).  Percentages are integers in hundredths of a       *)
(* percent (99.9% = 9990); max_similarity is an integer in units of 1e-5   *)
(* (0.999 = 99900).  Groups are numbered 1..N (the code numbers from 0).   *)
(***************************************************************************)
EXTENDS Integers, Sequences, FiniteSets, TLC

\* ------------------------------------------------------------------ bounds
\* page-size targets a stored session may hold
MaxTarget == 2
\* longest navigation history explored
MaxHistory == 3
\* number of user operations (toggles, switches, navigation, submissions) explored
MaxOps == 2
\* number of user operations explored on the long group lists
MaxOpsLarge == 3

\* --------------------------------------------------------- program constants
DefaultRangeStart == 10000
DefaultRangeEnd == 9990
DefaultTargetGroups == 100
FallbackFileNum == 999999
SmallBatchSize == 5
LargeBatchSize == 30
LargePageThreshold == 505

\* ------------------------------------------------------------ group inputs
Files == {"A", "B", "C"}
Statuses == {"saved", "removed", "unknown"}

\* the group lists the backend may supply (getGroups), one per configuration;
\* list 4 has 50 groups at 100.0% and 80 at 99.9%
GroupList(c) ==
  CASE c = 1 -> << [files |-> <<"A", "B">>, max_similarity |-> 99900],
                   [files |-> <<"B", "C">>, max_similarity |-> 99800] >>
    [] c = 2 -> << [files |-> <<"A", "B">>, max_similarity |-> 99870],
                   [files |-> <<"B", "C">>, max_similarity |-> 99800],
                   [files |-> <<"C", "A">>, max_similarity |-> 99704] >>
    [] c = 3 -> << [files |-> <<"A", "B">>, max_similarity |-> 99900],
                   [files |-> <<"B", "C">>, max_similarity |-> 99900],
                   [files |-> <<"C", "A">>, max_similarity |-> 99900],
                   [files |-> <<"A", "B", "C">>, max_similarity |-> 99800],
                   [files |-> <<"B", "A">>, max_similarity |-> 99800],
                   [files |-> <<"C", "B">>, max_similarity |-> 99700],
                   [files |-> <<"A", "C">>, max_similarity |-> 99700] >>
    [] c = 4 -> [i \in 1..130 |->
                   [files |-> IF i % 2 = 1 THEN <<"A", "B">> ELSE <<"B", "C">>,
                    max_similarity |-> IF i <= 50 THEN 100000 ELSE 99900]]

Configs == {1, 2}

\* the long group lists: levels that hold several groups, pages of several batches
LargeConfigs == {3, 4}

\* the list whose pages need more than one submission batch
BatchConfigs == {3}

\* has_year as the backend reports it
BackendHasYear(c) == IF c = 1 THEN {"A"} ELSE {"C"}

\* digits of the file name (parseInt(filename.replace(/\D/g, '')) || 999999)
FileDigits(c, f) ==
  CASE c = 1 -> (CASE f = "A" -> 5 [] f = "B" -> 1 [] f = "C" -> 2)
    [] c = 2 -> (CASE f = "A" -> 1 [] f = "B" -> 1 [] f = "C" -> 0)
    [] OTHER -> (CASE f = "A" -> 3 [] f = "B" -> 2 [] f = "C" -> 1)

ParseFileNum(c, f) == IF FileDigits(c, f) = 0 THEN FallbackFileNum ELSE FileDigits(c, f)

\* ---------------------------------------------------------------- helpers
Range(s) == {s[i] : i \in 1..Len(s)}

\* Math.round(group.max_similarity * 1000) / 10, in hundredths of a percent
RoundedSimilarity(ms) == ((ms + 50) \div 100) * 10

VARIABLES
  cfg,                  \* which group list was supplied (props.groups)
  backend,              \* the external store: record -> status
  fileStatuses,         \* FileStatus context cache: record -> status or "none"
  autoSelections,       \* group -> (partial) record -> checked
  userModifiedFiles,    \* userModifiedFilesRef
  checkAllMode,
  initializing,
  finalMetadata,        \* finalMetadata of initializeGroups: the cached metadata, then what its request left
  mcqMetadata,          \* session.mcqMetadata in local storage (records that have an entry)
  similarityRangeStart,
  similarityRangeEnd,
  targetGroupsPerPage,
  isManualRange,
  pageHistory,
  pageCompleted,
  statusLoad,           \* the loadFileStatusesForRange call in flight, if any
  lastLoadedRange,      \* lastLoadedRangeRef
  submitting,
  fileFinalStates,      \* fileFinalStates of the running or last handleConfirmSubmitAll
  inFlight,             \* submitGroup calls issued and not yet returned
  submitCalls,          \* group -> kept list sent by the current invocation
  submitActive,         \* handleConfirmSubmitAll is between its first and last statement
  submitQueue,          \* groups of the page whose batch has not been started
  showSuccessModal,
  nextPageInfo,
  opCount,              \* history: user operations performed so far
  toggledOnPage,        \* history: the records toggled since the range last changed
  rangeOrigin,          \* history: the operation that produced the current range
  lastRun,              \* history: the last fully successful page submission with no toggle since
  conflictingFiles,     \* the set the conflict detection effect stored last
  session,              \* local storage: the value under the single session key
  mcqLoad,              \* the content load: its pending timer and its request in flight
  telemetryDown,        \* the best-effort calls the backend rejects during this visit
  errorShown            \* the last submission ended in its catch block (alert shown)

selVars == <<fileStatuses, autoSelections, userModifiedFiles, checkAllMode, initializing, finalMetadata, mcqMetadata>>
navVars == <<similarityRangeStart, similarityRangeEnd, targetGroupsPerPage, isManualRange, pageHistory, pageCompleted>>
loadVars == <<statusLoad, lastLoadedRange, mcqLoad>>
subVars == <<submitting, fileFinalStates, inFlight, submitCalls, submitActive, submitQueue, showSuccessModal, nextPageInfo, errorShown>>
histVars == <<opCount, toggledOnPage, rangeOrigin, lastRun>>
vars == <<cfg, telemetryDown, backend, selVars, navVars, loadVars, subVars, histVars, conflictingFiles, session>>

\* ----------------------------------------------------------- group index
groups == GroupList(cfg)
GroupIds == 1..Len(groups)
GroupFiles(g) == groups[g].files
GroupLevel(g) == RoundedSimilarity(groups[g].max_similarity)

LevelSet == {GroupLevel(g) : g \in GroupIds}

\* groupsBySimilarity[level] || []: the groups whose rounded similarity is level
GroupsBySimilarity(level) ==
  [l \in LevelSet \cup {level} |-> {g \in GroupIds : GroupLevel(g) = l}][level]


\* sort of a set of numbers, highest first
RECURSIVE SortDesc(_)
SortDesc(S) ==
  IF S = {} THEN << >>
  ELSE LET m == CHOOSE x \in S : \A y \in S : y <= x
       IN <<m>> \o SortDesc(S \ {m})

similarityLevels == SortDesc(LevelSet)
MinLevel == similarityLevels[Len(similarityLevels)]
MaxLevel == similarityLevels[1]

\* variant: the end of the range is an exclusive bound
CalculateGroupsAboveEnd(start, end) ==
  SelectSeq([i \in 1..Len(groups) |-> i],
            LAMBDA g : GroupLevel(g) <= start /\ GroupLevel(g) > end)

\* calculateGroupsInRange(start, end) without a limit: indices in list order
CalculateGroupsInRange(start, end) ==
  SelectSeq([i \in 1..Len(groups) |-> i],
            LAMBDA g : GroupLevel(g) <= start /\ GroupLevel(g) >= end)

GetGroupsForCurrentPage == CalculateGroupsInRange(similarityRangeStart, similarityRangeEnd)
PageGroups == Range(GetGroupsForCurrentPage)
FilesOfGroups(G) == UNION {Range(GroupFiles(g)) : g \in G}
PageFiles == FilesOfGroups(PageGroups)


\* ------------------------------------------------------ partial functions
EmptyMap == [x \in {} |-> TRUE]
Put(m, k, v) == [x \in (DOMAIN m) \cup {k} |-> IF x = k THEN v ELSE m[x]]
\* selections[filename] ?? false
Checked(m, f) == IF f \in DOMAIN m THEN m[f] ELSE FALSE

NoRange == << >>
IdleLoad == [active |-> FALSE, start |-> 0, end |-> 0, files |-> {}]

\* ------------------------------------------------------------ SessionStore
\* the subject under review (props.subject) and another subject of the site
Subject == "X"
OtherSubject == "Y"
Subjects == {Subject, OtherSubject}

\* localStorage.getItem(STORAGE_KEY) === null; a field that is 0 or FALSE
\* in a stored session is undefined there
NoSession ==
  [exists |-> FALSE, subject |-> "", hasRange |-> FALSE, start |-> 0, end |-> 0,
   target |-> 0, isManualRange |-> FALSE, checkedFiles |-> EmptyMap]

\* the session literal the callers create when loadSession returned null
NewSession(subject) == [NoSession EXCEPT !.exists = TRUE, !.subject = subject]

\* storage.saveSession: setItem under the one key, whatever it held
SaveSession(store, state) == state

\* storage.loadSession(subject)
LoadSession(store, subject) ==
  IF store.exists /\ store.subject = subject THEN store ELSE NoSession

\* storage.clearSession(subject) with a subject
ClearSession(store, subject) ==
  IF store.exists /\ store.subject = subject THEN NoSession ELSE store

\* storage.clearSession() without a subject
ClearAllSessions(store) == NoSession

\* storage.updateCheckedFiles(subject, filename, checked)
UpdateCheckedFiles(store, subject, filename, checked) ==
  LET sess == LoadSession(store, subject)
  IN IF sess.exists
     THEN SaveSession(store, [sess EXCEPT !.checkedFiles = Put(@, filename, checked)])
     ELSE store

\* storage.updateMCQMetadata(subject, metadata): creates the session if missing
UpdateMCQMetadata(store, subject) ==
  LET sess == LoadSession(store, subject)
  IN SaveSession(store, IF sess.exists THEN sess ELSE NewSession(subject))

\* the body of the session save effect
SaveRange(store, subject, start, end, target, manual) ==
  LET sess0 == LoadSession(store, subject)
      sess == IF sess0.exists THEN sess0 ELSE NewSession(subject)
  IN SaveSession(store, [sess EXCEPT !.hasRange = TRUE, !.start = start, !.end = end,
                                     !.target = target, !.isManualRange = manual])

\* ------------------------------------------------- SelectionReconciler
\* fileStatus?.status || 'unknown'
StatusOf(st, f) == IF st[f] = "none" THEN "unknown" ELSE st[f]

\* metadata[filename]: hasYear of the cached entry, false without one
HasYearOf(meta, f) == f \in meta /\ f \in BackendHasYear(cfg)
\* cached.fileNum and the fallback are the same parse of the file name
FileNumOf(f) == ParseFileNum(cfg, f)

\* a comparator that ranks by file number alone
CompareUnknownByNumber(meta, a, b) == FileNumOf(a) - FileNumOf(b)

\* the comparator of unknownFiles.sort
CompareUnknown(meta, a, b) ==
  IF HasYearOf(meta, a) # HasYearOf(meta, b)
  THEN (IF HasYearOf(meta, a) THEN -1 ELSE 1)
  ELSE FileNumOf(a) - FileNumOf(b)

\* Array.prototype.sort is stable: x goes after every element not greater than it
RECURSIVE InsertSorted(_, _, _)
InsertSorted(meta, s, x) ==
  IF s = << >> THEN <<x>>
  ELSE IF CompareUnknown(meta, Head(s), x) <= 0
       THEN <<Head(s)>> \o InsertSorted(meta, Tail(s), x)
       ELSE <<x>> \o s

RECURSIVE SortUnknown(_, _)
SortUnknown(meta, s) ==
  IF s = << >> THEN << >>
  ELSE InsertSorted(meta, SortUnknown(meta, SubSeq(s, 1, Len(s) - 1)), s[Len(s)])

AutoSelectBestMCQ(files, meta, useCheckAllMode, st) ==
  IF useCheckAllMode
  THEN [f \in Range(files) |-> StatusOf(st, f) # "removed"]
  ELSE LET unknownFiles == SelectSeq(files, LAMBDA f : StatusOf(st, f) = "unknown")
           sorted == SortUnknown(meta, unknownFiles)
       IN [f \in Range(files) |->
             CASE StatusOf(st, f) = "saved" -> TRUE
               [] StatusOf(st, f) = "removed" -> FALSE
               [] OTHER -> f = Head(sorted)]

\* an updater that recomputes user-modified records as well
MergeSelectionsAllFiles(prev, st, um, mode, meta) ==
  [g \in GroupIds |->
     LET existingSelections == prev[g]
         filesForAutoSelect == GroupFiles(g)
         groupSelections == AutoSelectBestMCQ(filesForAutoSelect, meta, mode, st)
     IN [f \in (DOMAIN existingSelections) \cup Range(filesForAutoSelect) |->
           IF /\ f \in Range(filesForAutoSelect)
              /\ \/ StatusOf(st, f) \in {"saved", "removed"}
                 \/ f \notin DOMAIN existingSelections
           THEN groupSelections[f]
           ELSE existingSelections[f]]]

\* the updater passed to setAutoSelections by initializeGroups and by the
\* checkAllMode effect
MergeSelections(prev, st, um, mode, meta) ==
  [g \in GroupIds |->
     LET existingSelections == prev[g]
         filesForAutoSelect == SelectSeq(GroupFiles(g), LAMBDA f : f \notin um)
         groupSelections == AutoSelectBestMCQ(filesForAutoSelect, meta, mode, st)
     IN [f \in (DOMAIN existingSelections) \cup Range(filesForAutoSelect) |->
           IF /\ f \in Range(filesForAutoSelect)
              /\ \/ StatusOf(st, f) \in {"saved", "removed"}
                 \/ f \notin DOMAIN existingSelections
           THEN groupSelections[f]
           ELSE existingSelections[f]]]

\* the checkAllMode effect: runs after every render in which the context value,
\* checkAllMode or initializing changed
RecomputeEffect(sel, st, um, mode, init, meta) ==
  IF ~init /\ Len(groups) > 0 THEN MergeSelections(sel, st, um, mode, meta) ELSE sel

\* ------------------------------------------------------- RangePaginator
CountAt(level) == Cardinality(GroupsBySimilarity(level))

\* variant: the walk stops only once the total is more than 1.5 times the target
RECURSIVE AccumulatePastTarget(_, _, _)
AccumulatePastTarget(i, total, targetGroups) ==
  LET t == total + CountAt(similarityLevels[i])
  IN IF 2 * t > 3 * targetGroups \/ i = Len(similarityLevels)
     THEN [end |-> similarityLevels[i], total |-> t]
     ELSE AccumulatePastTarget(i + 1, t, targetGroups)

\* variant: the walk goes on until the total is above the target
RECURSIVE AccumulateStrict(_, _, _)
AccumulateStrict(i, total, targetGroups) ==
  LET t == total + CountAt(similarityLevels[i])
  IN IF \/ (10 * t >= 8 * targetGroups /\ t > targetGroups)
        \/ 2 * t > 3 * targetGroups
        \/ i = Len(similarityLevels)
     THEN [end |-> similarityLevels[i], total |-> t]
     ELSE AccumulateStrict(i + 1, t, targetGroups)

RECURSIVE Accumulate(_, _, _)
Accumulate(i, total, targetGroups) ==
  LET t == total + CountAt(similarityLevels[i])
  IN IF \/ (10 * t >= 8 * targetGroups /\ t >= targetGroups)
        \/ 2 * t > 3 * targetGroups
        \/ i = Len(similarityLevels)
     THEN [end |-> similarityLevels[i], total |-> t]
     ELSE Accumulate(i + 1, t, targetGroups)

\* index of the first level below p, 0 when there is none
FirstLevelBelow(p) ==
  LET I == {i \in 1..Len(similarityLevels) : similarityLevels[i] < p}
  IN IF I = {} THEN 0 ELSE CHOOSE i \in I : \A j \in I : i <= j

\* variant: a level equal to p is skipped
FirstLevelSkippingEqual(p) ==
  LET I == {i \in 1..Len(similarityLevels) : similarityLevels[i] < p}
  IN IF I = {} THEN 0 ELSE CHOOSE i \in I : \A j \in I : i <= j

\* index of the first level not above p, 0 when there is none
FirstLevelAtOrBelow(p) ==
  LET I == {i \in 1..Len(similarityLevels) : similarityLevels[i] <= p}
  IN IF I = {} THEN 0 ELSE CHOOSE i \in I : \A j \in I : i <= j

CalculateRangeFromTargetGroups(startPoint, targetGroups) ==
  IF Len(similarityLevels) = 0 THEN [start |-> DefaultRangeStart, end |-> DefaultRangeEnd]
  ELSE LET startIndex == FirstLevelAtOrBelow(startPoint)
       IN IF startIndex = 0 THEN [start |-> MinLevel, end |-> MinLevel]
          ELSE LET rangeStart == similarityLevels[startIndex]
                   acc == Accumulate(startIndex, 0, targetGroups)
               IN IF /\ 2 * acc.total < targetGroups
                     /\ Len(CalculateGroupsInRange(rangeStart, MinLevel)) > 0
                  THEN [start |-> rangeStart, end |-> MinLevel]
                  ELSE [start |-> rangeStart, end |-> acc.end]

\* variant: a range ending on the lowest level still reports a next page
HasNextPageAtMin(start, end) == Len(similarityLevels) > 0 /\ end >= MinLevel

HasNextPage(start, end) ==
  IF Len(similarityLevels) = 0 \/ Len(groups) = 0 THEN FALSE
  ELSE IF end > MinLevel THEN TRUE
  ELSE \E g \in GroupIds :
         /\ g \notin Range(CalculateGroupsInRange(start, end))
         /\ GroupLevel(g) < end

HasPreviousPage == Len(pageHistory) > 0


\* ------------------------------------------------------ conflict detection
\* session.checkedFiles of the subject under review
CheckedFiles(store) == LoadSession(store, Subject).checkedFiles

\* fileStatusContext.getFileChecked(filename), read for a record without a
\* selection entry: the checked flag of the cache entry as the status load
\* set it (the stored preference when there is one, else true for saved),
\* false without an entry
GetFileChecked(st, cached, f) ==
  IF st[f] = "none" THEN FALSE
  ELSE IF f \in DOMAIN cached THEN cached[f]
  ELSE st[f] = "saved"

\* filename in selections ? selections[filename] : getFileChecked(filename)
IsChecked(sel, st, cached, g, f) ==
  IF f \in DOMAIN sel[g] THEN sel[g][f] ELSE GetFileChecked(st, cached, f)

\* the records whose states over the groups of the page hold true and false
ConflictsOf(page, sel, st, cached) ==
  {f \in FilesOfGroups(page) :
     /\ \E g \in page : f \in Range(GroupFiles(g)) /\ IsChecked(sel, st, cached, g, f)
     /\ \E g \in page : f \in Range(GroupFiles(g)) /\ ~IsChecked(sel, st, cached, g, f)}

\* the groups calculateGroupsInRange(start, end) returns, as a set
GroupsInRange(start, end) ==
  {g \in GroupIds : GroupLevel(g) <= start /\ GroupLevel(g) >= end}

\* the conflict detection effect: it returns before setConflictingFiles when
\* the page holds no group
ConflictDetection(prev, page, sel, st, cached) ==
  IF page = {} THEN prev ELSE ConflictsOf(page, sel, st, cached)

\* the effect as it runs after the state updates of a handler
ConflictEffect ==
  \E page \in {GroupsInRange(similarityRangeStart', similarityRangeEnd')} :
    conflictingFiles' = ConflictDetection(conflictingFiles, page, autoSelections', fileStatuses',
                                          CheckedFiles(session'))

\* the effect after a handler that caused two renders, the first with the
\* range (midStart, midEnd)
ConflictEffectVia(midStart, midEnd) ==
  \E mid \in {GroupsInRange(midStart, midEnd)} :
  \E page \in {GroupsInRange(similarityRangeStart', similarityRangeEnd')} :
    conflictingFiles' =
      ConflictDetection(ConflictDetection(conflictingFiles, mid, autoSelections', fileStatuses',
                                          CheckedFiles(session')),
                        page, autoSelections', fileStatuses', CheckedFiles(session'))

\* setFileChecked(filename, finalState) of processGroup for every record of
\* the group: storage.updateCheckedFiles writes the final state of each
UpdateCheckedFilesOfGroup(store, subject, g, final) ==
  LET sess == LoadSession(store, subject)
      cf == sess.checkedFiles
      members == Range(GroupFiles(g))
  IN IF sess.exists
     THEN SaveSession(store, [sess EXCEPT !.checkedFiles =
            [x \in (DOMAIN cf) \cup members |->
               IF x \in members THEN (x \in DOMAIN final /\ final[x]) ELSE cf[x]]])
     ELSE store

\* the session save effect after the writes (store) of a handler: it runs when
\* the range, the target or isManualRange changed
SessionEffect(store) ==
  session' =
    IF <<similarityRangeStart', similarityRangeEnd', targetGroupsPerPage', isManualRange'>>
         # <<similarityRangeStart, similarityRangeEnd, targetGroupsPerPage, isManualRange>>
    THEN SaveRange(store, Subject, similarityRangeStart', similarityRangeEnd',
                   targetGroupsPerPage', isManualRange')
    ELSE store

\* ------------------------------------------------------------ status loads
\* loadFileStatusesForRange(start, end) as called by the range effect: the
\* call in flight afterwards (sl: the call in flight before, ll: lastLoadedRangeRef)
StartLoad(start, end, sl, ll) ==
  LET groupsInRange == CalculateGroupsInRange(start, end)
  IN IF Len(groupsInRange) = 0 THEN sl
     ELSE IF ll = <<start, end>> THEN sl
     ELSE IF sl.active THEN sl
     ELSE [active |-> TRUE, start |-> start, end |-> end,
           files |-> FilesOfGroups(Range(groupsInRange))]

\* no content load: no timer pending, no request in flight
IdleMCQLoad == [timer |-> FALSE, active |-> FALSE, start |-> 0, end |-> 0, files |-> {}]

\* The content-load effect of a render whose range changed to (start, end):
\* the cleanup clears the timer of the previous range; the effect sets a
\* 100 ms timer when the page has groups.  The callback reads loadingStatuses
\* of that render (loading) and does nothing when it is true, so only a timer
\* that will request (timer) is kept.
ArmTimer(start, end, loading, ml) ==
  [ml EXCEPT !.timer = Len(CalculateGroupsInRange(start, end)) > 0 /\ ~loading]

\* ------------------------------------------------------------------- Init
NoCalls == EmptyMap
NoSelections == [g \in GroupIds |-> EmptyMap]
NoFinal == EmptyMap
NoNextPage == [set |-> FALSE, start |-> 0, end |-> 0, hasNextPage |-> FALSE]
NoRun == [done |-> FALSE, start |-> 0, end |-> 0, final |-> NoFinal, statuses |-> EmptyMap]

\* the local-storage session found when the component mounts: none, or one
\* written by an earlier visit (its range is the first range of its target)
SessionsAtMount ==
  {[exists |-> FALSE, target |-> DefaultTargetGroups, meta |-> {}]}
    \cup {[exists |-> TRUE, target |-> t, meta |-> Files] : t \in 1..MaxTarget}

\* the statuses the external store may hold when the review starts
InitialBackends ==
  { [f \in Files |-> "unknown"],
    [f \in Files |-> CASE f = "A" -> "saved" [] f = "B" -> "unknown" [] OTHER -> "removed"],
    [f \in Files |-> CASE f = "A" -> "unknown" [] f = "B" -> "saved" [] OTHER -> "unknown"],
    [f \in Files |-> CASE f = "A" -> "removed" [] f = "B" -> "removed" [] OTHER -> "saved"] }

\* the state once the component has mounted and initializeGroups waits for
\* its metadata request: the first status load was requested for the range
\* the state held when the levels became known, the range effect then ran
\* again for the computed range
InitWithOutages(configs, outages) ==
  /\ cfg \in configs
  /\ telemetryDown \in outages
  /\ backend \in InitialBackends
  /\ \E sess \in SessionsAtMount :
     \E r0 \in {CalculateRangeFromTargetGroups(MaxLevel, sess.target)} :
       LET first == IF sess.exists THEN r0
                    ELSE [start |-> DefaultRangeStart, end |-> DefaultRangeEnd]
           load1 == StartLoad(first.start, first.end, IdleLoad, NoRange)
       IN /\ targetGroupsPerPage = sess.target
          /\ similarityRangeStart = r0.start
          /\ similarityRangeEnd = r0.end
          /\ statusLoad = IF first = r0 THEN load1
                          ELSE StartLoad(r0.start, r0.end, load1, NoRange)
          /\ mcqLoad = ArmTimer(r0.start, r0.end, first # r0 /\ load1.active, IdleMCQLoad)
          /\ finalMetadata = sess.meta
          /\ mcqMetadata = sess.meta
          /\ rangeOrigin = IF sess.exists THEN "restore" ELSE "init"
  /\ lastLoadedRange = NoRange
  /\ fileStatuses = [f \in Files |-> "none"]
  /\ autoSelections = NoSelections
  /\ userModifiedFiles = {}
  /\ checkAllMode = FALSE
  /\ initializing = TRUE
  /\ isManualRange = FALSE
  /\ pageHistory = << >>
  /\ pageCompleted = FALSE
  /\ submitting = FALSE
  /\ fileFinalStates = NoFinal
  /\ inFlight = {}
  /\ submitCalls = NoCalls
  /\ submitActive = FALSE
  /\ submitQueue = << >>
  /\ showSuccessModal = FALSE
  /\ errorShown = FALSE
  /\ nextPageInfo = NoNextPage
  /\ toggledOnPage = {}
  /\ lastRun = NoRun
  /\ conflictingFiles = {}
  /\ session = SaveRange(NoSession, Subject, similarityRangeStart, similarityRangeEnd,
                         targetGroupsPerPage, FALSE)
  /\ opCount = 0

\* the same with every best-effort call answered
InitWith(configs) == InitWithOutages(configs, {{}})

Init == InitWith(Configs)

\* the same mount with one of the long group lists
InitLarge == InitWith(LargeConfigs)

\* the mount with the list whose first page takes two batches
InitBatch == InitWith(BatchConfigs)

\* the mount that restores a session with a small target on that list, no
\* record decided yet: the first page is the three groups of the top level
InitRetry ==
  /\ InitWith(BatchConfigs)
  /\ targetGroupsPerPage <= MaxTarget
  /\ backend = [f \in Files |-> "unknown"]

\* no modal or overlay covers the page
UiFree == ~submitting /\ ~showSuccessModal

\* a user operation within the explored budget
OpLimit == IF cfg \in Configs THEN MaxOps ELSE MaxOpsLarge
UserOp == opCount < OpLimit /\ opCount' = opCount + 1

\* -------------------------------------------------------- initializeGroups
\* The metadata request of initializeGroups returns (ok) or fails.  The
\* updater runs with the closure of the mount render: an empty status cache
\* and checkAllMode = false.  setInitializing(false) then lets the
\* checkAllMode effect run with the current cache.
InitializeGroupsFinish(ok) ==
  /\ UNCHANGED opCount
  /\ initializing
  /\ LET finalMeta2 == IF ok THEN Files ELSE finalMetadata
         meta2 == IF ok THEN mcqMetadata \cup Files ELSE mcqMetadata
         mountStatuses == [f \in Files |-> "none"]
         sel1 == MergeSelections(autoSelections, mountStatuses, userModifiedFiles, FALSE, finalMeta2)
     IN /\ mcqMetadata' = meta2
        /\ finalMetadata' = finalMeta2
        /\ autoSelections' = RecomputeEffect(sel1, fileStatuses, userModifiedFiles, checkAllMode, FALSE, meta2)
  /\ initializing' = FALSE
  /\ UNCHANGED <<cfg, telemetryDown, backend, fileStatuses, userModifiedFiles, checkAllMode>>
  /\ UNCHANGED <<navVars, loadVars, subVars, toggledOnPage, rangeOrigin, lastRun>>
  /\ SessionEffect(IF ok THEN UpdateMCQMetadata(session, Subject) ELSE session)
  /\ ConflictEffect

\* a completion whose failure stores unknown for every record requested
StatusLoadCompleteFailureAsUnknown(ok) ==
  /\ UNCHANGED opCount
  /\ statusLoad.active
  /\ LET st2 == IF ok THEN [f \in Files |-> IF f \in statusLoad.files THEN backend[f] ELSE fileStatuses[f]]
                ELSE [f \in Files |-> IF f \in statusLoad.files THEN "unknown" ELSE fileStatuses[f]]
         meta2 == IF ok THEN mcqMetadata \cup statusLoad.files ELSE mcqMetadata
     IN /\ fileStatuses' = st2
        /\ mcqMetadata' = meta2
        /\ autoSelections' = RecomputeEffect(autoSelections, st2, userModifiedFiles, checkAllMode, initializing, meta2)
  /\ lastLoadedRange' = <<statusLoad.start, statusLoad.end>>
  /\ statusLoad' = IdleLoad
  /\ UNCHANGED mcqLoad
  /\ UNCHANGED <<cfg, telemetryDown, backend, userModifiedFiles, checkAllMode, initializing, finalMetadata>>
  /\ UNCHANGED <<navVars, subVars, toggledOnPage, rangeOrigin, lastRun>>
  /\ SessionEffect(IF ok THEN UpdateMCQMetadata(session, Subject) ELSE session)
  /\ ConflictEffect

\* the batchFileData request of loadFileStatuses returns (ok) or fails; the
\* failure is caught inside loadFileStatuses, so loadFileStatusesForRange
\* records the range either way
StatusLoadComplete(ok) ==
  /\ UNCHANGED opCount
  /\ statusLoad.active
  /\ LET st2 == IF ok THEN [f \in Files |-> IF f \in statusLoad.files THEN backend[f] ELSE fileStatuses[f]]
                ELSE fileStatuses
         meta2 == IF ok THEN mcqMetadata \cup statusLoad.files ELSE mcqMetadata
     IN /\ fileStatuses' = st2
        /\ mcqMetadata' = meta2
        /\ autoSelections' = RecomputeEffect(autoSelections, st2, userModifiedFiles, checkAllMode, initializing, meta2)
  /\ lastLoadedRange' = <<statusLoad.start, statusLoad.end>>
  /\ statusLoad' = IdleLoad
  /\ UNCHANGED mcqLoad
  /\ UNCHANGED <<cfg, telemetryDown, backend, userModifiedFiles, checkAllMode, initializing, finalMetadata>>
  /\ UNCHANGED <<navVars, subVars, toggledOnPage, rangeOrigin, lastRun>>
  /\ SessionEffect(IF ok THEN UpdateMCQMetadata(session, Subject) ELSE session)
  /\ ConflictEffect

\* The timer of the content-load effect fires: loadMCQDataForRange for the
\* range of the render that set it (the current range, a range change clears
\* the timer).  Nothing is requested while a content load is in flight.
MCQTimerFires ==
  /\ UNCHANGED opCount
  /\ mcqLoad.timer
  /\ IF mcqLoad.active
     THEN /\ mcqLoad' = [mcqLoad EXCEPT !.timer = FALSE]
          /\ UNCHANGED autoSelections
     ELSE /\ mcqLoad' = [timer |-> FALSE, active |-> TRUE,
                         start |-> similarityRangeStart, end |-> similarityRangeEnd,
                         files |-> FilesOfGroups(Range(CalculateGroupsInRange(similarityRangeStart, similarityRangeEnd)))]
          /\ autoSelections' = RecomputeEffect(autoSelections, fileStatuses, userModifiedFiles, checkAllMode, initializing, mcqMetadata)
  /\ UNCHANGED <<cfg, telemetryDown, backend, fileStatuses, userModifiedFiles, checkAllMode, initializing, finalMetadata, mcqMetadata>>
  /\ UNCHANGED <<statusLoad, lastLoadedRange>>
  /\ UNCHANGED <<navVars, subVars, toggledOnPage, rangeOrigin, lastRun>>
  /\ SessionEffect(session)
  /\ ConflictEffect

\* the batchFileData request of loadMCQData returns (ok) or fails: an entry
\* the cache holds keeps its status, a record without an entry gets one with
\* the status of the response; the session metadata and the last loaded
\* range are not written
MCQLoadComplete(ok) ==
  /\ UNCHANGED opCount
  /\ mcqLoad.active
  /\ LET st2 == IF ok THEN [f \in Files |-> IF f \in mcqLoad.files /\ fileStatuses[f] = "none"
                                            THEN backend[f] ELSE fileStatuses[f]]
                ELSE fileStatuses
     IN /\ fileStatuses' = st2
        /\ autoSelections' = RecomputeEffect(autoSelections, st2, userModifiedFiles, checkAllMode, initializing, mcqMetadata)
  /\ mcqLoad' = [mcqLoad EXCEPT !.active = FALSE, !.start = 0, !.end = 0, !.files = {}]
  /\ UNCHANGED <<cfg, telemetryDown, backend, userModifiedFiles, checkAllMode, initializing, finalMetadata, mcqMetadata>>
  /\ UNCHANGED <<statusLoad, lastLoadedRange>>
  /\ UNCHANGED <<navVars, subVars, toggledOnPage, rangeOrigin, lastRun>>
  /\ SessionEffect(session)
  /\ ConflictEffect

\* ------------------------------------------------------------ user edits
\* an updater that changes the first group of the page holding the file only
ToggleSelectionsFirstGroup(sel, filename, checked) ==
  [g \in GroupIds |->
     IF /\ g \in PageGroups /\ filename \in Range(GroupFiles(g))
        /\ \A h \in PageGroups : filename \in Range(GroupFiles(h)) => g <= h
     THEN Put(sel[g], filename, checked)
     ELSE sel[g]]

\* the updater of handleFileToggleAll: every group of the page holding the file
ToggleSelections(sel, filename, checked) ==
  [g \in GroupIds |->
     IF g \in PageGroups /\ filename \in Range(GroupFiles(g))
     THEN Put(sel[g], filename, checked)
     ELSE sel[g]]

\* GroupDisplay.handleToggle -> handleGroupToggle -> handleFileToggleAll
HandleFileToggleAll(filename, checked) ==
  /\ UserOp
  /\ ~initializing /\ UiFree
  /\ filename \in PageFiles
  /\ userModifiedFiles' = userModifiedFiles \cup {filename}
  /\ LET sel1 == ToggleSelections(autoSelections, filename, checked)
        \* setFileChecked changes the context value only for a cached record
     IN autoSelections' = IF fileStatuses[filename] = "none" THEN sel1
                          ELSE RecomputeEffect(sel1, fileStatuses, userModifiedFiles', checkAllMode, initializing, mcqMetadata)
  /\ toggledOnPage' = toggledOnPage \cup {filename}
  /\ UNCHANGED <<cfg, telemetryDown, backend, fileStatuses, checkAllMode, initializing, finalMetadata, mcqMetadata>>
  /\ lastRun' = NoRun
  /\ UNCHANGED <<navVars, loadVars, subVars, rangeOrigin>>
  /\ SessionEffect(UpdateCheckedFiles(session, Subject, filename, checked))
  /\ ConflictEffect

\* the Check All switch: setCheckAllMode(!checkAllMode), then the effect
ToggleCheckAllMode ==
  /\ UserOp
  /\ ~initializing /\ UiFree
  /\ checkAllMode' = ~checkAllMode
  /\ autoSelections' = RecomputeEffect(autoSelections, fileStatuses, userModifiedFiles, checkAllMode', initializing, mcqMetadata)
  /\ UNCHANGED <<cfg, telemetryDown, backend, fileStatuses, userModifiedFiles, initializing, finalMetadata, mcqMetadata>>
  /\ lastRun' = NoRun
  /\ UNCHANGED <<navVars, loadVars, subVars, toggledOnPage, rangeOrigin>>
  /\ SessionEffect(session)
  /\ ConflictEffect


\* -------------------------------------------------------------- navigation
\* The state updates of a handler that sets the range to (newStart, newEnd),
\* followed by the effects of the next render: the status-load effect, then
\* the reset effect (both only when the range value changed), and the
\* checkAllMode effect when a load was started (loadingStatuses changed).
SetRange(newStart, newEnd, origin) ==
  LET changed == <<newStart, newEnd>> # <<similarityRangeStart, similarityRangeEnd>>
      sl2 == IF changed THEN StartLoad(newStart, newEnd, statusLoad, lastLoadedRange) ELSE statusLoad
  IN /\ similarityRangeStart' = newStart
     /\ similarityRangeEnd' = newEnd
     /\ pageCompleted' = FALSE
     /\ statusLoad' = sl2
     /\ lastLoadedRange' = IF changed THEN NoRange ELSE lastLoadedRange
     /\ mcqLoad' = IF changed THEN ArmTimer(newStart, newEnd, statusLoad.active, mcqLoad) ELSE mcqLoad
     /\ autoSelections' = IF sl2 # statusLoad
                          THEN RecomputeEffect(autoSelections, fileStatuses, userModifiedFiles, checkAllMode, initializing, mcqMetadata)
                          ELSE autoSelections
     /\ toggledOnPage' = IF changed THEN {} ELSE toggledOnPage
     /\ rangeOrigin' = origin
     /\ UNCHANGED lastRun
     /\ UNCHANGED <<cfg, telemetryDown, backend, fileStatuses, userModifiedFiles, checkAllMode, initializing, finalMetadata, mcqMetadata>>
     /\ UNCHANGED <<targetGroupsPerPage, subVars>>

\* The recalculation effect runs in a render in which isManualRange changed
\* (flip).  When the session holds a range that differs from the range of
\* that render (the save effect has not run yet) it sets the saved range
\* again: the outcome of the handler's range update.
RangeAfterRecalc(newStart, newEnd, flip) ==
  LET saved == LoadSession(session, Subject)
  IN IF /\ flip /\ Len(similarityLevels) > 0
        /\ saved.exists /\ saved.hasRange
        /\ <<newStart, newEnd>> # <<saved.start, saved.end>>
     THEN [start |-> saved.start, end |-> saved.end, restored |-> TRUE]
     ELSE [start |-> newStart, end |-> newEnd, restored |-> FALSE]

\* a handler sets the range to (newStart, newEnd) and may change
\* isManualRange (flip): the render with the new range and, when the
\* recalculation effect restored the saved range, the render that follows
SetRangeVia(newStart, newEnd, flip, origin) ==
  \E r \in {RangeAfterRecalc(newStart, newEnd, flip)} :
    IF ~r.restored THEN SetRange(newStart, newEnd, origin)
    ELSE LET changed == <<newStart, newEnd>> # <<similarityRangeStart, similarityRangeEnd>>
             sl1 == IF changed THEN StartLoad(newStart, newEnd, statusLoad, lastLoadedRange) ELSE statusLoad
             sl2 == StartLoad(r.start, r.end, sl1, NoRange)
             back == <<r.start, r.end>> = <<similarityRangeStart, similarityRangeEnd>>
         IN /\ similarityRangeStart' = r.start
            /\ similarityRangeEnd' = r.end
            /\ pageCompleted' = FALSE
            /\ statusLoad' = sl2
            /\ lastLoadedRange' = NoRange
            /\ mcqLoad' = ArmTimer(r.start, r.end, sl1.active, mcqLoad)
            /\ autoSelections' = IF sl2 # statusLoad
                                 THEN RecomputeEffect(autoSelections, fileStatuses, userModifiedFiles, checkAllMode, initializing, mcqMetadata)
                                 ELSE autoSelections
            /\ toggledOnPage' = IF back THEN toggledOnPage ELSE {}
            /\ rangeOrigin' = IF back THEN rangeOrigin ELSE "restore"
            /\ UNCHANGED lastRun
            /\ UNCHANGED <<cfg, telemetryDown, backend, fileStatuses, userModifiedFiles, checkAllMode, initializing, finalMetadata, mcqMetadata>>
            /\ UNCHANGED <<targetGroupsPerPage, subVars>>

\* a start point that is the current end whatever the range
NextStartPointAtEnd(start, end) ==
  LET lower == {GroupLevel(g) : g \in {h \in GroupIds : GroupLevel(h) < end /\ GroupLevel(h) < MinLevel}}
  IN IF end = MinLevel
     THEN (IF lower = {} THEN 0 ELSE CHOOSE x \in lower : \A y \in lower : x <= y)
     ELSE end

\* the start point goToNextPage derives from the current range; 0 when it
\* gives up after the history push
NextStartPoint(start, end) ==
  LET below == FirstLevelBelow(end)
      s1 == IF start = end /\ below # 0 THEN similarityLevels[below] ELSE end
      lower == {GroupLevel(g) : g \in {h \in GroupIds : GroupLevel(h) < end /\ GroupLevel(h) < MinLevel}}
  IN IF end = MinLevel
     THEN (IF lower = {} THEN 0 ELSE CHOOSE x \in lower : \A y \in lower : x <= y)
     ELSE s1

GoToNextPage ==
  /\ UserOp
  /\ ~initializing /\ UiFree
  /\ Len(pageHistory) < MaxHistory
  /\ HasNextPage(similarityRangeStart, similarityRangeEnd)
  /\ pageHistory' = Append(pageHistory, [start |-> similarityRangeStart, end |-> similarityRangeEnd])
  /\ LET nextStart == NextStartPoint(similarityRangeStart, similarityRangeEnd)
     IN IF nextStart = 0
        THEN /\ UNCHANGED <<cfg, telemetryDown, backend, selVars, similarityRangeStart, similarityRangeEnd,
                            targetGroupsPerPage, isManualRange, pageCompleted, loadVars, subVars,
                            toggledOnPage, rangeOrigin, lastRun>>
             /\ SessionEffect(session)
             /\ ConflictEffect
        ELSE \E r \in {CalculateRangeFromTargetGroups(nextStart, targetGroupsPerPage)} :
               LET nextEnd == IF r.end < MinLevel THEN MinLevel ELSE r.end
               IN /\ SetRangeVia(r.start, nextEnd, isManualRange, "next")
                  /\ isManualRange' = FALSE
                  /\ SessionEffect(session)
                  /\ ConflictEffectVia(r.start, nextEnd)

\* variant: the oldest entry of the history is restored
OldestPage(history) == history[1]

\* pageHistory[pageHistory.length - 1]
PreviousPage(history) == history[Len(history)]

GoToPreviousPage ==
  /\ UserOp
  /\ ~initializing /\ UiFree
  /\ HasPreviousPage
  /\ LET previousPage == PreviousPage(pageHistory)
     IN SetRange(previousPage.start, previousPage.end, "previous")
  /\ pageHistory' = SubSeq(pageHistory, 1, Len(pageHistory) - 1)
  /\ UNCHANGED isManualRange
  /\ SessionEffect(session)
  /\ ConflictEffect

JumpToMin ==
  /\ UserOp
  /\ UiFree
  /\ Len(similarityLevels) > 0
  /\ \E range \in {CalculateRangeFromTargetGroups(MinLevel, targetGroupsPerPage)} :
       SetRange(range.start, range.end, "jump")
  /\ pageHistory' = << >>
  /\ UNCHANGED isManualRange
  /\ SessionEffect(session)
  /\ ConflictEffect

JumpToMax ==
  /\ UserOp
  /\ UiFree
  /\ Len(similarityLevels) > 0
  /\ \E range \in {CalculateRangeFromTargetGroups(MaxLevel, targetGroupsPerPage)} :
       SetRange(range.start, range.end, "jump")
  /\ pageHistory' = << >>
  /\ UNCHANGED isManualRange
  /\ SessionEffect(session)
  /\ ConflictEffect

\* ------------------------------------------------------ SubmissionCoordinator
\* the (group, file) visits of "for groupIndex of groupsInPage, for filename of group.files"
RECURSIVE Visits(_)
Visits(pageSeq) ==
  IF pageSeq = << >> THEN << >>
  ELSE [i \in 1..Len(GroupFiles(Head(pageSeq))) |-> <<Head(pageSeq), GroupFiles(Head(pageSeq))[i]>>]
         \o Visits(Tail(pageSeq))

\* first pass of handleConfirmSubmitAll: every file of the page starts false
RECURSIVE FirstPass(_, _)
FirstPass(v, m) ==
  IF v = << >> THEN m
  ELSE FirstPass(Tail(v), IF Head(v)[2] \in DOMAIN m THEN m ELSE Put(m, Head(v)[2], FALSE))

\* a second pass in which the last visited group decides
RECURSIVE SecondPassLastWins(_, _, _)
SecondPassLastWins(v, sel, m) ==
  IF v = << >> THEN m
  ELSE SecondPassLastWins(Tail(v), sel, Put(m, Head(v)[2], Checked(sel[Head(v)[1]], Head(v)[2])))

\* second pass: true when checked in the visited group
RECURSIVE SecondPass(_, _, _)
SecondPass(v, sel, m) ==
  IF v = << >> THEN m
  ELSE SecondPass(Tail(v), sel,
                  IF Checked(sel[Head(v)[1]], Head(v)[2]) THEN Put(m, Head(v)[2], TRUE) ELSE m)

SubmitFinalStates(pageSeq, sel) ==
  SecondPass(Visits(pageSeq), sel, FirstPass(Visits(pageSeq), NoFinal))

\* the single pass of calculateLiveCounts
RECURSIVE LivePass(_, _, _)
LivePass(v, sel, m) ==
  IF v = << >> THEN m
  ELSE LivePass(Tail(v), sel,
                IF Checked(sel[Head(v)[1]], Head(v)[2]) THEN Put(m, Head(v)[2], TRUE)
                ELSE IF Head(v)[2] \notin DOMAIN m THEN Put(m, Head(v)[2], FALSE)
                ELSE m)

LiveFinalStates == LivePass(Visits(GetGroupsForCurrentPage), autoSelections, NoFinal)

\* variant: a rejected best-effort call ends the handler in its catch block
BestEffortRethrown(call, down) == call \notin down

\* a best-effort call (getSummary before and after the submission,
\* trackRemoved) sits in its own try/catch: a rejection is logged and the
\* handler carries on.  TRUE when the handler carries on after the call.
BestEffort(call, down) == TRUE

\* allGroupsHaveAutoSelections
AllGroupsHaveAutoSelections ==
  /\ Len(GetGroupsForCurrentPage) > 0
  /\ \A g \in PageGroups :
       /\ DOMAIN autoSelections[g] # {}
       /\ \A f \in Range(GroupFiles(g)) : f \in DOMAIN autoSelections[g]

BatchSize(totalGroups) == IF totalGroups > LargePageThreshold THEN LargeBatchSize ELSE SmallBatchSize

\* checkedFiles taken from the group's own selection
CheckedFilesOfOwnGroup(g, final) == {f \in Range(GroupFiles(g)) : Checked(autoSelections[g], f)}

\* checkedFiles of processGroup
CheckedFilesOf(g, final) == {f \in Range(GroupFiles(g)) : f \in DOMAIN final /\ final[f]}

\* the calls processGroup issues for one batch
IssueBatch(batch, final) == {[g |-> g, cur |-> TRUE, final |-> final] : g \in Range(batch)}

Min2(a, b) == IF a < b THEN a ELSE b

\* Submit All and its confirmation: the final states are computed from the
\* selections of the render in which Confirm was clicked, the first batch is sent
HandleConfirmSubmitAll ==
  /\ UserOp
  /\ ~submitting /\ ~showSuccessModal /\ ~statusLoad.active /\ ~pageCompleted /\ ~initializing
  /\ AllGroupsHaveAutoSelections
  /\ IF BestEffort("summaryBefore", telemetryDown)
     THEN /\ LET groupsInPage == GetGroupsForCurrentPage
                 final == SubmitFinalStates(groupsInPage, autoSelections)
                 n == Min2(BatchSize(Len(groupsInPage)), Len(groupsInPage))
                 batch == SubSeq(groupsInPage, 1, n)
             IN /\ fileFinalStates' = final
                /\ inFlight' = inFlight \cup IssueBatch(batch, final)
                /\ submitCalls' = [g \in Range(batch) |-> CheckedFilesOf(g, final)]
                /\ submitQueue' = SubSeq(groupsInPage, n + 1, Len(groupsInPage))
          /\ submitting' = TRUE
          /\ submitActive' = TRUE
          /\ errorShown' = FALSE
     ELSE /\ errorShown' = TRUE
          /\ UNCHANGED <<submitting, submitActive, fileFinalStates, inFlight, submitCalls, submitQueue>>
  /\ UNCHANGED <<cfg, telemetryDown, backend, selVars, navVars, loadVars, showSuccessModal, nextPageInfo, toggledOnPage, rangeOrigin, lastRun>>
  /\ SessionEffect(session)
  /\ ConflictEffect

\* the external store applies submitGroup(subject, group, kept)
BackendSubmit(b, g, kept) ==
  [f \in Files |-> IF f \in Range(GroupFiles(g)) THEN (IF f \in kept THEN "saved" ELSE "removed") ELSE b[f]]

\* variant: every member of a submitted group is recorded as saved
StatusesAllSaved(st, g, final) ==
  [f \in Files |-> IF f \in Range(GroupFiles(g)) THEN "saved" ELSE st[f]]

\* the status writes of processGroup after its submitGroup call returned
StatusesAfterGroup(st, g, final) ==
  [f \in Files |-> IF f \in Range(GroupFiles(g))
                   THEN (IF f \in DOMAIN final /\ final[f] THEN "saved" ELSE "removed")
                   ELSE st[f]]

\* variant: a rejected call is ignored and the invocation carries on
AfterFailureIgnored(cur, flag) == flag

\* the catch block of handleConfirmSubmitAll: a flag of the invocation after
\* one of its calls (cur) was rejected
AfterFailure(cur, flag) == IF cur THEN FALSE ELSE flag

\* variant: the next batch is sent as soon as one call of the batch returned
BatchDoneEarly(c, rest) == c.cur

\* await Promise.all(batchPromises): every call of the batch has returned
BatchDone(c, rest) == c.cur /\ ~\E d \in rest : d.cur

\* a submitGroup call returns.  On success processGroup writes the statuses
\* (also when its invocation has failed meanwhile) and, when the batch is
\* complete, the next batch is sent.  On failure the invocation ends in its
\* catch block; the other calls of the batch stay in flight.
SubmitGroupReturns(c, ok) ==
  /\ UNCHANGED opCount
  /\ c \in inFlight
  /\ LET rest == inFlight \ {c}
         batchDone == BatchDone(c, rest)
         n == Min2(BatchSize(Len(submitQueue) + Cardinality(DOMAIN submitCalls)), Len(submitQueue))
         batch == SubSeq(submitQueue, 1, n)
     IN IF ok
        THEN /\ backend' = BackendSubmit(backend, c.g, CheckedFilesOf(c.g, c.final))
             /\ fileStatuses' = StatusesAfterGroup(fileStatuses, c.g, c.final)
             /\ autoSelections' = RecomputeEffect(autoSelections, fileStatuses', userModifiedFiles, checkAllMode, initializing, mcqMetadata)
             /\ IF batchDone /\ submitActive
                THEN /\ inFlight' = rest \cup IssueBatch(batch, c.final)
                     /\ submitCalls' = [g \in (DOMAIN submitCalls) \cup Range(batch) |-> CheckedFilesOf(g, c.final)]
                     /\ submitQueue' = SubSeq(submitQueue, n + 1, Len(submitQueue))
                ELSE /\ inFlight' = rest
                     /\ UNCHANGED <<submitCalls, submitQueue>>
             /\ UNCHANGED <<submitting, submitActive, errorShown>>
        ELSE /\ inFlight' = {[d EXCEPT !.cur = AfterFailure(c.cur, d.cur)] : d \in rest}
             /\ submitting' = AfterFailure(c.cur, submitting)
             /\ submitActive' = AfterFailure(c.cur, submitActive)
             /\ errorShown' = (c.cur \/ errorShown)
             /\ UNCHANGED <<backend, fileStatuses, autoSelections, submitCalls, submitQueue>>
  /\ UNCHANGED <<cfg, telemetryDown, userModifiedFiles, checkAllMode, initializing, finalMetadata, mcqMetadata>>
  /\ UNCHANGED <<navVars, loadVars, fileFinalStates, showSuccessModal, nextPageInfo, toggledOnPage, rangeOrigin, lastRun>>
  /\ SessionEffect(IF ok THEN UpdateCheckedFilesOfGroup(session, Subject, c.g, c.final) ELSE session)
  /\ ConflictEffect

\* the start point of the next range computed for the success modal
SubmitNextStart(end) ==
  LET lower == {GroupLevel(g) : g \in {h \in GroupIds : GroupLevel(h) < end /\ GroupLevel(h) < MinLevel}}
  IN IF end = MinLevel /\ lower # {} THEN CHOOSE x \in lower : \A y \in lower : x <= y ELSE end

\* every batch succeeded: success modal with the next range, page completed
SubmitFinish ==
  /\ UNCHANGED opCount
  /\ submitActive
  /\ submitQueue = << >>
  /\ ~\E c \in inFlight : c.cur
  /\ IF BestEffort("summaryAfter", telemetryDown)
     THEN /\ LET calculatedNext == CalculateRangeFromTargetGroups(SubmitNextStart(similarityRangeEnd), targetGroupsPerPage)
             IN nextPageInfo' = [set |-> TRUE, start |-> calculatedNext.start, end |-> calculatedNext.end,
                                 hasNextPage |-> HasNextPage(similarityRangeStart, similarityRangeEnd)]
          /\ showSuccessModal' = TRUE
          /\ pageCompleted' = TRUE
          /\ errorShown' = ~BestEffort("trackRemoved", telemetryDown)
     ELSE /\ errorShown' = TRUE
          /\ UNCHANGED <<nextPageInfo, showSuccessModal, pageCompleted>>
  /\ submitting' = FALSE
  /\ submitActive' = FALSE
  /\ UNCHANGED <<cfg, telemetryDown, backend, selVars, similarityRangeStart, similarityRangeEnd, targetGroupsPerPage,
                 isManualRange, pageHistory, loadVars, fileFinalStates, inFlight, submitCalls,
                 submitQueue, toggledOnPage, rangeOrigin>>
  /\ lastRun' = IF showSuccessModal'
                THEN [done |-> TRUE, start |-> similarityRangeStart, end |-> similarityRangeEnd,
                      final |-> fileFinalStates, statuses |-> fileStatuses]
                ELSE lastRun
  /\ SessionEffect(session)
  /\ ConflictEffect

\* OK on the success modal: advance to the stored next range when there is one
SuccessModalOk ==
  /\ UserOp
  /\ showSuccessModal
  /\ IF nextPageInfo.hasNextPage /\ nextPageInfo.set
     THEN /\ Len(pageHistory) < MaxHistory
          /\ pageHistory' = Append(pageHistory, [start |-> similarityRangeStart, end |-> similarityRangeEnd])
          /\ LET changed == <<nextPageInfo.start, nextPageInfo.end>> # <<similarityRangeStart, similarityRangeEnd>>
                 sl2 == IF changed THEN StartLoad(nextPageInfo.start, nextPageInfo.end, statusLoad, lastLoadedRange) ELSE statusLoad
             IN /\ similarityRangeStart' = nextPageInfo.start
                /\ similarityRangeEnd' = nextPageInfo.end
                /\ pageCompleted' = FALSE
                /\ statusLoad' = sl2
                /\ lastLoadedRange' = IF changed THEN NoRange ELSE lastLoadedRange
                /\ mcqLoad' = IF changed
                              THEN ArmTimer(nextPageInfo.start, nextPageInfo.end, statusLoad.active, mcqLoad)
                              ELSE mcqLoad
                /\ autoSelections' = IF sl2 # statusLoad
                                     THEN RecomputeEffect(autoSelections, fileStatuses, userModifiedFiles, checkAllMode, initializing, mcqMetadata)
                                     ELSE autoSelections
                /\ toggledOnPage' = IF changed THEN {} ELSE toggledOnPage
          /\ rangeOrigin' = "submit"
          /\ showSuccessModal' = FALSE
          /\ UNCHANGED nextPageInfo
     ELSE /\ nextPageInfo' = NoNextPage
          /\ showSuccessModal' = FALSE
          /\ UNCHANGED <<similarityRangeStart, similarityRangeEnd, pageCompleted, pageHistory,
                         statusLoad, lastLoadedRange, mcqLoad, autoSelections, toggledOnPage, rangeOrigin>>
  /\ UNCHANGED <<cfg, telemetryDown, backend, fileStatuses, userModifiedFiles, checkAllMode, initializing, finalMetadata, mcqMetadata>>
  /\ UNCHANGED <<targetGroupsPerPage, isManualRange>>
  /\ UNCHANGED <<submitting, fileFinalStates, inFlight, submitCalls, submitActive, submitQueue, errorShown, lastRun>>
  /\ SessionEffect(session)
  /\ ConflictEffect

\* -------------------------------------------------- manual range controls
\* the steps of the fine and the coarse buttons, in hundredths of a percent
FineStep == 1
CoarseStep == 10
RangeSteps == {FineStep, CoarseStep}

\* the values the sliders are dragged to
SliderPoints == LevelSet

\* variant: the stepped value is taken without the clamp
Max2Unclamped(a, b) == b

Max2(a, b) == IF a > b THEN a ELSE b

\* the state updates every range control makes, and the effects of the render
ManualRange(newStart, newEnd) ==
  /\ UserOp
  /\ ~initializing /\ UiFree
  /\ Len(similarityLevels) > 0
  /\ SetRangeVia(newStart, newEnd, ~isManualRange, "manual")
  /\ isManualRange' = TRUE
  /\ pageHistory' = << >>
  /\ SessionEffect(session)
  /\ ConflictEffectVia(newStart, newEnd)

\* the two buttons that lower the start
StartDown(step) ==
  /\ similarityRangeStart > similarityRangeEnd
  /\ ManualRange(Max2(similarityRangeEnd, similarityRangeStart - step), similarityRangeEnd)

\* the two buttons that raise the start
StartUp(step) ==
  /\ similarityRangeStart < MaxLevel
  /\ ManualRange(Min2(MaxLevel, similarityRangeStart + step), similarityRangeEnd)

\* the start slider (min = end, max = highest level) is moved to another value
StartSlider(newStart) ==
  /\ newStart # similarityRangeStart
  /\ similarityRangeEnd <= newStart /\ newStart <= MaxLevel
  /\ ManualRange(newStart, similarityRangeEnd)

\* the two buttons that lower the end
EndDown(step) ==
  /\ similarityRangeEnd > MinLevel
  /\ ManualRange(similarityRangeStart, Max2(MinLevel, similarityRangeEnd - step))

\* the two buttons that raise the end
EndUp(step) ==
  /\ similarityRangeEnd < similarityRangeStart
  /\ ManualRange(similarityRangeStart, Min2(similarityRangeStart, similarityRangeEnd + step))

\* the end slider (min = lowest level, max = start) is moved to another value
EndSlider(newEnd) ==
  /\ newEnd # similarityRangeEnd
  /\ MinLevel <= newEnd /\ newEnd <= similarityRangeStart
  /\ ManualRange(similarityRangeStart, newEnd)

\* ------------------------------------------------------ page-size target
\* the page sizes the target chooser offers
TargetChoices == (1..MaxTarget) \cup {DefaultTargetGroups}

\* The user picks another target page size: setTargetGroupsPerPage(t), then
\* the recalculation effect of the next render.  A session that holds a
\* range ends the effect (the range of the render equals the saved one);
\* without one an auto-calculated range is computed again from the highest
\* level.
SetTargetGroupsPerPage(t) ==
  /\ UserOp
  /\ ~initializing /\ UiFree
  /\ Len(similarityLevels) > 0
  /\ t # targetGroupsPerPage
  /\ targetGroupsPerPage' = t
  /\ \E saved \in {LoadSession(session, Subject)} :
     \E r \in {IF saved.exists /\ saved.hasRange
               THEN [start |-> saved.start, end |-> saved.end]
               ELSE IF ~isManualRange
                    THEN CalculateRangeFromTargetGroups(MaxLevel, t)
                    ELSE [start |-> similarityRangeStart, end |-> similarityRangeEnd]} :
       LET changed == <<r.start, r.end>> # <<similarityRangeStart, similarityRangeEnd>>
           sl2 == IF changed THEN StartLoad(r.start, r.end, statusLoad, lastLoadedRange) ELSE statusLoad
       IN /\ similarityRangeStart' = r.start
          /\ similarityRangeEnd' = r.end
          /\ pageCompleted' = IF changed THEN FALSE ELSE pageCompleted
          /\ statusLoad' = sl2
          /\ lastLoadedRange' = IF changed THEN NoRange ELSE lastLoadedRange
          /\ mcqLoad' = IF changed THEN ArmTimer(r.start, r.end, statusLoad.active, mcqLoad) ELSE mcqLoad
          /\ autoSelections' = IF sl2 # statusLoad
                               THEN RecomputeEffect(autoSelections, fileStatuses, userModifiedFiles, checkAllMode, initializing, mcqMetadata)
                               ELSE autoSelections
          /\ toggledOnPage' = IF changed THEN {} ELSE toggledOnPage
          /\ rangeOrigin' = IF changed THEN "target" ELSE rangeOrigin
  /\ UNCHANGED <<cfg, telemetryDown, backend, fileStatuses, userModifiedFiles, checkAllMode, initializing, finalMetadata, mcqMetadata>>
  /\ UNCHANGED <<isManualRange, pageHistory, subVars, lastRun>>
  /\ SessionEffect(session)
  /\ ConflictEffect

\* ------------------------------------------------------------------ reload
\* variant: the saved range is restored only when it was set by hand
LoadSavedRangeManualOnly(store, subject) ==
  LET saved == LoadSession(store, subject)
  IN IF saved.exists /\ saved.hasRange /\ saved.isManualRange
     THEN [start |-> saved.start, end |-> saved.end, isManual |-> saved.isManualRange,
           targetGroups |-> saved.target, hasSaved |-> TRUE]
     ELSE [start |-> DefaultRangeStart, end |-> DefaultRangeEnd, isManual |-> FALSE,
           targetGroups |-> IF saved.exists /\ saved.hasRange THEN saved.target ELSE DefaultTargetGroups,
           hasSaved |-> FALSE]

\* loadSavedRange: the initial state of the range, the target and the flag
LoadSavedRange(store, subject) ==
  LET saved == LoadSession(store, subject)
  IN IF saved.exists /\ saved.hasRange
     THEN [start |-> saved.start, end |-> saved.end, isManual |-> saved.isManualRange,
           targetGroups |-> saved.target, hasSaved |-> TRUE]
     ELSE [start |-> DefaultRangeStart, end |-> DefaultRangeEnd, isManual |-> FALSE,
           targetGroups |-> DefaultTargetGroups, hasSaved |-> FALSE]

\* The page is loaded again while no submission runs: every state of the
\* component and of the status cache is lost, local storage and the external
\* store are kept.  The new mount reads the range from the session, the
\* range initialisation effect keeps a restored range and computes the first
\* range otherwise, the save effect writes the range of the mount.
Reload ==
  /\ UserOp
  /\ ~submitting /\ ~submitActive /\ inFlight = {}
  /\ \E savedRange \in {LoadSavedRange(session, Subject)} :
     \E r0 \in {IF savedRange.hasSaved
                THEN [start |-> savedRange.start, end |-> savedRange.end]
                ELSE CalculateRangeFromTargetGroups(MaxLevel, savedRange.targetGroups)} :
       LET load1 == StartLoad(savedRange.start, savedRange.end, IdleLoad, NoRange)
       IN /\ targetGroupsPerPage' = savedRange.targetGroups
          /\ isManualRange' = savedRange.isManual
          /\ similarityRangeStart' = r0.start
          /\ similarityRangeEnd' = r0.end
          /\ statusLoad' = IF savedRange.hasSaved THEN load1
                           ELSE StartLoad(r0.start, r0.end, load1, NoRange)
          /\ mcqLoad' = ArmTimer(r0.start, r0.end,
                                 ~savedRange.hasSaved /\ load1.active, IdleMCQLoad)
          /\ session' = SaveRange(session, Subject, r0.start, r0.end,
                                  savedRange.targetGroups, savedRange.isManual)
  /\ lastLoadedRange' = NoRange
  /\ fileStatuses' = [f \in Files |-> "none"]
  /\ autoSelections' = NoSelections
  /\ userModifiedFiles' = {}
  /\ checkAllMode' = FALSE
  /\ initializing' = TRUE
  /\ finalMetadata' = mcqMetadata
  /\ pageHistory' = << >>
  /\ pageCompleted' = FALSE
  /\ submitting' = FALSE
  /\ fileFinalStates' = NoFinal
  /\ submitCalls' = NoCalls
  /\ submitActive' = FALSE
  /\ submitQueue' = << >>
  /\ showSuccessModal' = FALSE
  /\ errorShown' = FALSE
  /\ nextPageInfo' = NoNextPage
  /\ toggledOnPage' = {}
  /\ rangeOrigin' = "reload"
  /\ lastRun' = NoRun
  /\ conflictingFiles' = {}
  /\ UNCHANGED <<cfg, telemetryDown, backend, mcqMetadata, inFlight>>

\* ------------------------------------------- other pages and other subjects
\* what the session metadata of the subject under review holds once local
\* storage has the value store2
MetadataIn(store2) == IF LoadSession(store2, Subject).exists THEN mcqMetadata ELSE {}

\* a step of another page: the view of the subject under review is untouched
ViewUntouched ==
  /\ mcqMetadata' = MetadataIn(session')
  /\ UNCHANGED <<cfg, telemetryDown, fileStatuses, autoSelections, userModifiedFiles, checkAllMode, initializing, finalMetadata>>
  /\ UNCHANGED <<navVars, loadVars, subVars, histVars, conflictingFiles>>

\* the save effect of a view that shows the other subject
OtherSubjectSaves(start, end, target, manual) ==
  /\ session' = SaveRange(session, OtherSubject, start, end, target, manual)
  /\ session' # session
  /\ UNCHANGED backend
  /\ ViewUntouched

\* handleConfirmAction, 'start_again' or 'resume_sbert' for the subject
\* picked on the home page: clearSession(selectedSubject); what the backend
\* request leaves of the statuses of the subject under review is open
StartAgain(subject) ==
  /\ session.exists
  /\ session' = ClearSession(session, subject)
  /\ backend' \in (IF subject = Subject THEN InitialBackends ELSE {}) \cup {backend}
  /\ ViewUntouched

\* handleReturnHome on the summary page of a subject: clearSession() without
\* the subject
HandleReturnHome(subject) ==
  /\ session.exists
  /\ session' = ClearAllSessions(session)
  /\ backend' \in (IF subject = Subject THEN InitialBackends ELSE {}) \cup {backend}
  /\ ViewUntouched

\* ---------------------------------------------------------- specification
Next ==
  \/ \E ok \in BOOLEAN : InitializeGroupsFinish(ok)
  \/ \E ok \in BOOLEAN : StatusLoadComplete(ok)
  \/ \E f \in Files, v \in BOOLEAN : HandleFileToggleAll(f, v)
  \/ ToggleCheckAllMode
  \/ GoToNextPage
  \/ GoToPreviousPage
  \/ JumpToMin
  \/ JumpToMax
  \/ HandleConfirmSubmitAll
  \/ \E c \in inFlight, ok \in BOOLEAN : SubmitGroupReturns(c, ok)
  \/ SubmitFinish
  \/ SuccessModalOk

Spec == Init /\ [][Next]_vars

\* paging over the long group lists
NextNav ==
  \/ \E ok \in BOOLEAN : InitializeGroupsFinish(ok)
  \/ \E ok \in BOOLEAN : StatusLoadComplete(ok)
  \/ GoToNextPage
  \/ GoToPreviousPage
  \/ JumpToMin
  \/ JumpToMax

SpecNav == InitLarge /\ [][NextNav]_vars

\* page submissions of several batches
NextBatch ==
  \/ \E ok \in BOOLEAN : InitializeGroupsFinish(ok)
  \/ \E ok \in BOOLEAN : StatusLoadComplete(ok)
  \/ HandleConfirmSubmitAll
  \/ \E c \in inFlight, ok \in BOOLEAN : SubmitGroupReturns(c, ok)
  \/ SubmitFinish
  \/ SuccessModalOk

SpecBatch == InitBatch /\ [][NextBatch]_vars

\* toggles and repeated submissions of the three-group first page
NextRetry ==
  \/ \E ok \in BOOLEAN : InitializeGroupsFinish(ok)
  \/ \E ok \in BOOLEAN : StatusLoadComplete(ok)
  \/ \E f \in Files, v \in BOOLEAN : HandleFileToggleAll(f, v)
  \/ HandleConfirmSubmitAll
  \/ \E c \in inFlight, ok \in BOOLEAN : SubmitGroupReturns(c, ok)
  \/ SubmitFinish
  \/ SuccessModalOk

SpecRetry == InitRetry /\ [][NextRetry]_vars

\* the mount with a short list or the list whose top level holds three groups
InitManual == InitWith(Configs \cup BatchConfigs)

\* toggles and the manual range controls
NextManual ==
  \/ \E ok \in BOOLEAN : InitializeGroupsFinish(ok)
  \/ \E ok \in BOOLEAN : StatusLoadComplete(ok)
  \/ \E f \in Files, v \in BOOLEAN : HandleFileToggleAll(f, v)
  \/ \E step \in RangeSteps : StartDown(step)
  \/ \E step \in RangeSteps : StartUp(step)
  \/ \E newStart \in SliderPoints : StartSlider(newStart)
  \/ \E step \in RangeSteps : EndDown(step)
  \/ \E step \in RangeSteps : EndUp(step)
  \/ \E newEnd \in SliderPoints : EndSlider(newEnd)

SpecManual == InitManual /\ [][NextManual]_vars

TypeOK ==
  /\ cfg \in Configs \cup LargeConfigs
  /\ backend \in [Files -> Statuses]
  /\ fileStatuses \in [Files -> Statuses \cup {"none"}]
  /\ \A g \in GroupIds : DOMAIN autoSelections[g] \subseteq Range(GroupFiles(g))
  /\ userModifiedFiles \subseteq Files
  /\ similarityRangeStart >= similarityRangeEnd

\* ------------------------------------------------------------- properties
\* the records two groups have in common
SharedFiles(g1, g2) == Range(GroupFiles(g1)) \cap Range(GroupFiles(g2))

\* C1: within one page submission, the submitGroup calls of any two groups of
\* the page agree on every record the two groups share: it is kept in both
\* calls or in neither.
C1_CallsAgreeOnSharedRecords ==
  \A g1 \in DOMAIN submitCalls, g2 \in DOMAIN submitCalls :
     \A f \in SharedFiles(g1, g2) : (f \in submitCalls[g1]) <=> (f \in submitCalls[g2])

\* a submission with calls for two groups sharing a record whose selections
\* disagree between the groups
C1_Witness ==
  /\ submitActive
  /\ \E g1 \in DOMAIN submitCalls, g2 \in DOMAIN submitCalls : \E f \in SharedFiles(g1, g2) :
       /\ g1 # g2
       /\ Checked(autoSelections[g1], f) /\ ~Checked(autoSelections[g2], f)
       /\ f \in submitCalls[g1] /\ f \in submitCalls[g2]

\* the final state the OR rule gives a record of the page
CheckedSomewhere(f) ==
  \E g \in PageGroups : f \in Range(GroupFiles(g)) /\ Checked(autoSelections[g], f)

OrFinalStates == [f \in PageFiles |-> CheckedSomewhere(f)]

\* C2: the final state of a record is true exactly when it is checked in at
\* least one group of the page that contains it (a missing entry counts as
\* unchecked), both in the map a page submission computes and in the map the
\* live counts are taken from.
C2_FinalStateIsOrOverGroups ==
  /\ [][HandleConfirmSubmitAll => fileFinalStates' = OrFinalStates]_vars
  /\ [](LiveFinalStates = OrFinalStates)

\* a submission whose final map keeps a record that a later group of the page
\* has unchecked
C2_Witness ==
  /\ submitActive
  /\ \E g1 \in PageGroups, g2 \in PageGroups : \E f \in SharedFiles(g1, g2) :
       /\ g1 < g2
       /\ Checked(autoSelections[g1], f) /\ ~Checked(autoSelections[g2], f)
       /\ f \in DOMAIN fileFinalStates /\ fileFinalStates[f]
       /\ LiveFinalStates[f]

\* the statuses of the page are in the cache and the selections were recomputed
PageStatusesLoaded == ~initializing /\ \A f \in PageFiles : fileStatuses[f] # "none"

\* the same, with no status load of the page in flight
PageSettled == PageStatusesLoaded /\ ~statusLoad.active

\* the page groups that contain a record
PageGroupsOf(f) == {g \in PageGroups : f \in Range(GroupFiles(g))}

\* C3: once the statuses of the page are loaded and the selections recomputed,
\* a record of the page with status saved that was not toggled on this page is
\* selected in every group of the page containing it, and one with status
\* removed is unselected in every such group, in both selection modes.
C3_StatusAuthority ==
  PageSettled =>
    \A f \in PageFiles \ toggledOnPage : \A g \in PageGroupsOf(f) :
       /\ fileStatuses[f] = "saved" => Checked(autoSelections[g], f)
       /\ fileStatuses[f] = "removed" => ~Checked(autoSelections[g], f)

\* C4: once the user has toggled a record on the current page, no step other
\* than a new toggle of that record changes its selection in a group of the
\* page while the range stays the same: not the check-all switch, not a status
\* load, not a status becoming saved or removed.
C4_UserOverrideIsSticky ==
  [][\A f \in toggledOnPage :
       ( /\ ~(\E v \in BOOLEAN : HandleFileToggleAll(f, v))
         /\ similarityRangeStart' = similarityRangeStart
         /\ similarityRangeEnd' = similarityRangeEnd )
       => \A g \in PageGroupsOf(f) :
            /\ f \in DOMAIN autoSelections[g] /\ f \in DOMAIN autoSelections'[g]
            /\ autoSelections'[g][f] = autoSelections[g][f]]_vars

\* a record toggled on this page holds the opposite of what its loaded status
\* prescribes, with check-all switched on
C4_Witness ==
  /\ PageStatusesLoaded /\ checkAllMode /\ ~statusLoad.active
  /\ \E f \in toggledOnPage : \E g \in PageGroupsOf(f) :
       /\ fileStatuses[f] = "saved"
       /\ ~Checked(autoSelections[g], f)

\* C5: a toggle of record f to value v sets the selection of f to v in every
\* group of the page containing f in the same update, and changes the
\* selection of no other record in any group.
C5_ToggleIsAtomicAcrossGroups ==
  [][\A f \in Files, v \in BOOLEAN :
       HandleFileToggleAll(f, v) =>
         /\ \A g \in PageGroupsOf(f) :
              f \in DOMAIN autoSelections'[g] /\ autoSelections'[g][f] = v
         /\ \A g \in GroupIds : \A f2 \in Range(GroupFiles(g)) \ {f} :
              /\ (f2 \in DOMAIN autoSelections'[g]) <=> (f2 \in DOMAIN autoSelections[g])
              /\ Checked(autoSelections'[g], f2) = Checked(autoSelections[g], f2)]_vars

\* a record in two groups of the page has just been toggled away from the
\* value both groups held: it is user-modified and holds the same value in both
C5_Witness ==
  \E f \in toggledOnPage : \E g1 \in PageGroupsOf(f), g2 \in PageGroupsOf(f) :
     /\ g1 # g2
     /\ fileStatuses[f] = "unknown"
     /\ Checked(autoSelections[g1], f) /\ Checked(autoSelections[g2], f)

\* the page [{A,B},{B,C}] with every record unknown, has_year known for A
\* only, ordinals A=5, B=1, C=2, exhaustive mode, nothing toggled
TwoGroupScenario ==
  /\ cfg = 1 /\ PageGroups = {1, 2}
  /\ PageStatusesLoaded /\ \A f \in Files : fileStatuses[f] = "unknown"
  /\ finalMetadata = Files
  /\ ~checkAllMode /\ userModifiedFiles = {}

UnknownUnmodified(g) ==
  SelectSeq(GroupFiles(g), LAMBDA f : fileStatuses[f] = "unknown" /\ f \notin userModifiedFiles)

\* C7: in exhaustive mode, once the statuses of the page are loaded and the
\* selections recomputed, each group of the page has exactly one of its
\* unknown, not user-modified records selected: the first one ordered by
\* has-year (true first), then ordinal ascending; the others are unselected.
C7_OneBestUnknownPerGroup ==
  (PageSettled /\ ~checkAllMode) =>
    \A g \in PageGroups :
       LET sorted == SortUnknown(mcqMetadata, UnknownUnmodified(g))
       IN \A f \in Range(sorted) : Checked(autoSelections[g], f) <=> (f = Head(sorted))

\* C8: with check-all mode switched on, every record of the page that is not
\* user-modified is selected in every group of the page containing it unless
\* its status is removed, and unselected when its status is removed; this
\* includes unknown records that held a value from exhaustive mode.
C8_CheckAllSelectsAllButRemoved ==
  (PageSettled /\ checkAllMode) =>
    \A f \in PageFiles \ userModifiedFiles : \A g \in PageGroupsOf(f) :
       Checked(autoSelections[g], f) <=> (fileStatuses[f] # "removed")

\* C9: the user-modified marks are reset whenever the range changes: every
\* record marked user-modified was toggled on the current page.
C9_MarksResetOnRangeChange == userModifiedFiles \subseteq toggledOnPage

\* the origins of a range computed by accumulation from a start point
AutoOrigins == {"init", "restore", "next", "jump", "submit"}

\* the first level strictly below p
NextLevelBelow(p) == LET below == {l \in LevelSet : l < p} IN CHOOSE x \in below : \A y \in below : y <= x

\* C10: when next() replaces an auto-computed range, the new range starts at
\* the end of the old one, or, when the old range was a single level
\* (start = end), at the next level strictly below it; no level in between
\* is skipped.
C10_RangeContinuity ==
  [][(GoToNextPage /\ rangeOrigin \in AutoOrigins /\ rangeOrigin' = "next") =>
       /\ similarityRangeStart # similarityRangeEnd => similarityRangeStart' = similarityRangeEnd
       /\ similarityRangeStart = similarityRangeEnd =>
            /\ \E l \in LevelSet : l < similarityRangeEnd
            /\ similarityRangeStart' = NextLevelBelow(similarityRangeEnd)]_vars

\* two consecutive ranges produced by next(), the earlier one a single level
C10_Witness ==
  /\ rangeOrigin = "next" /\ Len(pageHistory) >= 2
  /\ pageHistory[Len(pageHistory)].start = pageHistory[Len(pageHistory)].end
  /\ similarityRangeStart < pageHistory[Len(pageHistory)].end

\* the points a range may start or end on: the levels and their neighbours
RangePoints == LevelSet \cup {l + 10 : l \in LevelSet} \cup {l - 10 : l \in LevelSet}

\* some group lies below the range, or inside it without being on its page
GroupRemains(start, end) ==
  \E g \in GroupIds :
    \/ GroupLevel(g) < end
    \/ /\ GroupLevel(g) <= start /\ GroupLevel(g) >= end
       /\ g \notin Range(CalculateGroupsInRange(start, end))

\* C11: hasNext() is decided by group existence: for the current range and
\* for every range over the levels, it is true exactly when some group lies
\* below the range's end or inside the range without being on its page, also
\* when the end is the lowest level.
C11_HasNextByGroupExistence ==
  /\ HasNextPage(similarityRangeStart, similarityRangeEnd)
       <=> GroupRemains(similarityRangeStart, similarityRangeEnd)
  /\ \A s \in RangePoints, e \in RangePoints :
       s >= e => (HasNextPage(s, e) <=> GroupRemains(s, e))

\* next() has reached a range that ends on the lowest level: nothing remains
C11_Witness ==
  /\ rangeOrigin = "next" /\ similarityRangeEnd = MinLevel
  /\ ~HasNextPage(similarityRangeStart, similarityRangeEnd)
  /\ GroupIds # Range(GetGroupsForCurrentPage)

\* the pages visited so far: the navigation history, then the current range
VisitedRanges == Append(pageHistory, [start |-> similarityRangeStart, end |-> similarityRangeEnd])

\* the range next() moves to from r
NextOf(r) ==
  LET c == CalculateRangeFromTargetGroups(NextStartPoint(r.start, r.end), targetGroupsPerPage)
  IN [start |-> c.start, end |-> IF c.end < MinLevel THEN MinLevel ELSE c.end]

\* the visited pages are jumpToMax() followed by next() steps only
WalkFromMax ==
  /\ VisitedRanges[1] = CalculateRangeFromTargetGroups(MaxLevel, targetGroupsPerPage)
  /\ \A i \in 1..(Len(VisitedRanges) - 1) :
       /\ HasNextPage(VisitedRanges[i].start, VisitedRanges[i].end)
       /\ NextStartPoint(VisitedRanges[i].start, VisitedRanges[i].end) # 0
       /\ VisitedRanges[i + 1] = NextOf(VisitedRanges[i])

VisitedGroups ==
  UNION {Range(CalculateGroupsInRange(VisitedRanges[i].start, VisitedRanges[i].end)) :
           i \in 1..Len(VisitedRanges)}

\* the page-size targets examined for the accumulation rule
Targets == (1..MaxTarget) \cup {DefaultTargetGroups, targetGroupsPerPage}

GroupsAtOrBelow(p) == {g \in GroupIds : GroupLevel(g) <= p}

\* C12: no group is unreachable: once a walk from jumpToMax() by next() has
\* come to a page where hasNext() is false, every group was on a visited
\* page; and when fewer than half the target groups lie at or below a start
\* point, the computed range ends at the lowest level and holds all of them.
C12_NoGroupUnreachable ==
  /\ (WalkFromMax /\ ~HasNextPage(similarityRangeStart, similarityRangeEnd))
        => VisitedGroups = GroupIds
  /\ \A p \in RangePoints, t \in Targets :
       LET r == CalculateRangeFromTargetGroups(p, t)
       IN (GroupsAtOrBelow(p) # {} /\ 2 * Cardinality(GroupsAtOrBelow(p)) < t)
            => /\ r.end = MinLevel
               /\ Range(CalculateGroupsInRange(r.start, r.end)) = GroupsAtOrBelow(p)

\* a walk of three pages from the highest level has reached the last page,
\* and the default target exceeds twice the number of groups
C12_Witness ==
  /\ WalkFromMax /\ Len(pageHistory) = 2 /\ rangeOrigin = "next"
  /\ ~HasNextPage(similarityRangeStart, similarityRangeEnd)
  /\ 2 * Cardinality(GroupsAtOrBelow(MaxLevel)) < DefaultTargetGroups

\* the number of groups on the page of range r
PageCount(r) == Len(CalculateGroupsInRange(r.start, r.end))

\* C13 as stated: for the page-size target T in force and every start point
\* with at least 0.8 x T groups at or below it, the range computed by the accumulation rule holds between 0.8 x T
\* and 1.5 x T groups.
C13_Original ==
  \A p \in RangePoints :
    10 * Cardinality(GroupsAtOrBelow(p)) >= 8 * targetGroupsPerPage =>
      \E r \in {CalculateRangeFromTargetGroups(p, targetGroupsPerPage)} :
         /\ 10 * PageCount(r) >= 8 * targetGroupsPerPage
         /\ 2 * PageCount(r) <= 3 * targetGroupsPerPage

\* C13 (amended): for the page-size target T in force and every start point
\* with at least 0.8 x T groups at or below it, the computed range holds at least 0.8 x T groups, and fewer than T
\* of them lie above its end level: only the groups of the end level can take
\* the page beyond the target.
C13_PageSizeLowerBound ==
  \A p \in RangePoints :
    10 * Cardinality(GroupsAtOrBelow(p)) >= 8 * targetGroupsPerPage =>
      \E r \in {CalculateRangeFromTargetGroups(p, targetGroupsPerPage)} :
         /\ 10 * PageCount(r) >= 8 * targetGroupsPerPage
         /\ PageCount(r) - CountAt(r.end) < targetGroupsPerPage

\* a jump has computed a page that holds more than 1.5 times the target
C13_Witness ==
  /\ rangeOrigin = "jump"
  /\ 2 * Len(GetGroupsForCurrentPage) > 3 * targetGroupsPerPage
  /\ [start |-> similarityRangeStart, end |-> similarityRangeEnd]
       = CalculateRangeFromTargetGroups(similarityRangeStart, targetGroupsPerPage)

\* the levels at or below s at which the running total from s has reached t
StopLevels(s, t) ==
  {l \in LevelSet : l <= s /\ Cardinality({g \in GroupIds : GroupLevel(g) <= s /\ GroupLevel(g) >= l}) >= t}

\* the first such level on the way down, the lowest level when there is none
FirstStopLevel(s, t) ==
  IF StopLevels(s, t) = {} THEN MinLevel
  ELSE CHOOSE l \in StopLevels(s, t) : \A m \in StopLevels(s, t) : m <= l

C15_SuccessCompletesAndAdvances ==
  /\ [][SubmitFinish => pageCompleted']_vars
  /\ [][(SuccessModalOk /\ nextPageInfo.set /\ nextPageInfo.hasNextPage) =>
          [start |-> similarityRangeStart', end |-> similarityRangeEnd']
            = NextOf([start |-> similarityRangeStart, end |-> similarityRangeEnd])]_vars

\* the groups that have a submitGroup call in flight
GroupsInFlight == {c.g : c \in inFlight}

\* C16: when a submitGroup call of the running page submission fails, the
\* submission ends with the error surfaced (no longer submitting, no success
\* dialog), the page is not marked completed, the range does not move, the
\* statuses already written stay as they are and the batches not yet started
\* stay unsent; and while no submission is running no submitGroup call is
\* issued and the page does not become completed.
C16_FailureAbortsLaterBatches ==
  /\ [][\A c \in inFlight : (c.cur /\ SubmitGroupReturns(c, FALSE)) =>
          /\ ~submitting' /\ ~submitActive' /\ ~showSuccessModal' /\ ~pageCompleted'
          /\ similarityRangeStart' = similarityRangeStart /\ similarityRangeEnd' = similarityRangeEnd
          /\ fileStatuses' = fileStatuses
          /\ submitQueue' = submitQueue /\ submitCalls' = submitCalls]_vars
  /\ [][(~submitActive /\ ~submitActive') =>
          /\ GroupsInFlight' \subseteq GroupsInFlight
          /\ submitCalls' = submitCalls /\ submitQueue' = submitQueue
          /\ pageCompleted' => pageCompleted]_vars

\* a call of the first batch has failed after another group of the batch was
\* committed: the second batch is unsent and the committed statuses are kept
C16_Witness ==
  /\ ~submitActive /\ ~submitting /\ ~pageCompleted /\ ~showSuccessModal
  /\ submitQueue # << >> /\ DOMAIN submitCalls # {}
  /\ \E g \in DOMAIN submitCalls :
       /\ g \notin GroupsInFlight
       /\ \A f \in Range(GroupFiles(g)) :
            fileStatuses[f] = IF Checked(fileFinalStates, f) THEN "saved" ELSE "removed"

\* the calls in flight that belong to the running page submission
CurCalls == {c \in inFlight : c.cur}

\* the batch (0, 1, ...) of the page that group g falls in
BatchIndex(page, g) ==
  ((CHOOSE i \in 1..Len(page) : page[i] = g) - 1) \div BatchSize(Len(page))

\* the calls in flight for the running submission respect the batches of page
BatchesRespected(page) ==
  /\ Cardinality(CurCalls) <= BatchSize(Len(page))
  /\ \A c \in CurCalls :
       /\ c.g \in Range(page) /\ c.g \in DOMAIN submitCalls
       /\ \A d \in CurCalls : BatchIndex(page, d.g) = BatchIndex(page, c.g)
       /\ \A g \in Range(page) :
            /\ BatchIndex(page, g) < BatchIndex(page, c.g)
                 => (g \in DOMAIN submitCalls /\ g \notin {d.g : d \in CurCalls})
            /\ BatchIndex(page, g) > BatchIndex(page, c.g)
                 => (g \notin DOMAIN submitCalls /\ g \in Range(submitQueue))

\* C17: the batches of one page submission are sequential and bounded: the
\* calls in flight for it are at most a batch size (5 up to 505 groups, 30
\* above), they all belong to one batch, every group of an earlier batch has
\* been sent and has returned, and every group of a later batch is unsent; a
\* call is only issued for a group not yet sent by the submission, and when
\* the submission succeeds every group of the page was sent.
C17_BatchesSequentialAndBounded ==
  /\ [](/\ BatchSize(LargePageThreshold) = SmallBatchSize
        /\ BatchSize(LargePageThreshold + 1) = LargeBatchSize
        /\ CurCalls # {} => \E page \in {GetGroupsForCurrentPage} : BatchesRespected(page))
  /\ [][(\A c \in inFlight' \ inFlight : c.cur => (c.g \notin DOMAIN submitCalls \/ ~submitActive))
        /\ (SubmitFinish => DOMAIN submitCalls = PageGroups)]_vars

\* the second batch of a seven-group page is in flight, the first has returned
C17_Witness ==
  /\ submitActive /\ Len(GetGroupsForCurrentPage) = 7
  /\ \E c \in CurCalls : BatchIndex(GetGroupsForCurrentPage, c.g) = 1
  /\ Cardinality(DOMAIN submitCalls) = 7

\* the status the cache must hold for record f under the final map
StatusFor(final, f) == IF Checked(final, f) THEN "saved" ELSE "removed"

\* C18: when a submitGroup call returns successfully, the cache holds for
\* every member of its group the status saved if the final state of the
\* record is true and removed otherwise; and when a page submission ends
\* with every call successful, this holds for every record on the page.
C18_CacheFollowsFinalStates ==
  [][/\ \A c \in inFlight : SubmitGroupReturns(c, TRUE) =>
          \A f \in Range(GroupFiles(c.g)) : fileStatuses'[f] = StatusFor(c.final, f)
     /\ SubmitFinish =>
          \A f \in PageFiles : fileStatuses[f] = StatusFor(fileFinalStates, f)]_vars

\* the last successful submission was of the current page, untouched since
RunAgain == lastRun.done /\ lastRun.start = similarityRangeStart /\ lastRun.end = similarityRangeEnd

PageConflicts == ConflictsOf(PageGroups, autoSelections, fileStatuses, CheckedFiles(session))

\* C20: in every reachable state the stored conflict set equals the set of
\* records that hold both true and false across the groups of the current
\* page; on a page without groups it is empty.
C20_ConflictSetExact == conflictingFiles = PageConflicts

\* every record of every group of the page has a selection entry
EveryRecordHasEntry ==
  \A g \in PageGroups : \A f \in Range(GroupFiles(g)) : f \in DOMAIN autoSelections[g]

\* C21: the page is ready for submission exactly when every record of every
\* group of the current page has an explicit selection entry, on every page
\* (also one whose range holds no group), whatever the conflict set is.
C21_ReadyIffEveryRecordHasEntry ==
  AllGroupsHaveAutoSelections <=> EveryRecordHasEntry

CurrentRange == [start |-> similarityRangeStart, end |-> similarityRangeEnd]

\* C22: Previous pops the most recent entry of the page history and makes
\* exactly that entry the current range; Next pushes the range it leaves, so
\* Next followed at once by Previous restores that range; with an empty
\* history Previous does nothing (no step of it exists).
C22_PreviousRestoresLastEntry ==
  [][/\ GoToPreviousPage =>
          /\ Len(pageHistory) > 0
          /\ CurrentRange' = pageHistory[Len(pageHistory)]
          /\ pageHistory' = SubSeq(pageHistory, 1, Len(pageHistory) - 1)
     /\ GoToNextPage =>
          pageHistory' = Append(pageHistory, CurrentRange)]_vars

\* Previous was taken from a history of two different pages
C22_Witness ==
  /\ rangeOrigin = "previous"
  /\ Len(pageHistory) = 1
  /\ pageHistory[1] # CurrentRange

\* C23: Jump to Max sets the range to the accumulation-rule range that starts
\* on the highest level, Jump to Min to the one that starts on the lowest
\* level (start = end = lowest level); either one empties the page history.
C23_JumpsAnchorAndClearHistory ==
  [][/\ JumpToMax =>
          /\ similarityRangeStart' = MaxLevel
          /\ CurrentRange' = CalculateRangeFromTargetGroups(MaxLevel, targetGroupsPerPage)
          /\ pageHistory' = << >>
     /\ JumpToMin =>
          /\ similarityRangeStart' = MinLevel /\ similarityRangeEnd' = MinLevel
          /\ CurrentRange' = CalculateRangeFromTargetGroups(MinLevel, targetGroupsPerPage)
          /\ pageHistory' = << >>]_vars

\* a jump to the lowest level of a list with several levels
C23_Witness ==
  /\ rangeOrigin = "jump"
  /\ similarityRangeStart = MinLevel /\ similarityRangeEnd = MinLevel
  /\ MinLevel < MaxLevel
  /\ pageHistory = << >>

\* ------------------------------------------------------- session and range
\* every way the range, the target and the flag change, with reloads
NextSession ==
  \/ \E ok \in BOOLEAN : InitializeGroupsFinish(ok)
  \/ \E ok \in BOOLEAN : StatusLoadComplete(ok)
  \/ \E f \in Files, v \in BOOLEAN : HandleFileToggleAll(f, v)
  \/ GoToNextPage
  \/ GoToPreviousPage
  \/ JumpToMin
  \/ JumpToMax
  \/ \E step \in RangeSteps : StartDown(step)
  \/ \E step \in RangeSteps : StartUp(step)
  \/ \E newStart \in SliderPoints : StartSlider(newStart)
  \/ \E step \in RangeSteps : EndDown(step)
  \/ \E step \in RangeSteps : EndUp(step)
  \/ \E newEnd \in SliderPoints : EndSlider(newEnd)
  \/ \E t \in TargetChoices : SetTargetGroupsPerPage(t)
  \/ Reload
  \/ HandleConfirmSubmitAll
  \/ \E c \in inFlight, ok \in BOOLEAN : SubmitGroupReturns(c, ok)
  \/ SubmitFinish
  \/ SuccessModalOk

SpecSession == Init /\ [][NextSession]_vars

\* C24: a change of targetGroupsPerPage while isManualRange is false leaves
\* the range the accumulation rule gives for the new target from the start
\* of the range held before (the current anchor).
C24_TargetChangeRecomputes ==
  [][\A t \in TargetChoices :
       (SetTargetGroupsPerPage(t) /\ ~isManualRange) =>
          CurrentRange' = CalculateRangeFromTargetGroups(similarityRangeStart, t)]_vars

\* a press or a drag of one of the range controls
ManualEdit ==
  \/ \E step \in RangeSteps : StartDown(step) \/ StartUp(step) \/ EndDown(step) \/ EndUp(step)
  \/ \E p \in SliderPoints : StartSlider(p) \/ EndSlider(p)

\* an explicit jump or a navigation step
JumpOrNavigation ==
  GoToNextPage \/ GoToPreviousPage \/ JumpToMin \/ JumpToMax \/ SuccessModalOk

\* C25: every edit with a range control sets isManualRange and leaves the
\* range it asked for (no effect of the render that follows, in which
\* isManualRange is true, changes it), and while isManualRange is true the
\* range changes only in a jump, a navigation step or a further edit.
C25_ManualRangeIsKept ==
  [][/\ ManualEdit => isManualRange'
     /\ \A p \in SliderPoints :
          /\ StartSlider(p) => CurrentRange' = [start |-> p, end |-> similarityRangeEnd]
          /\ EndSlider(p) => CurrentRange' = [start |-> similarityRangeStart, end |-> p]
     /\ \A step \in RangeSteps :
          /\ StartDown(step) =>
               CurrentRange' = [start |-> Max2(similarityRangeEnd, similarityRangeStart - step),
                                end |-> similarityRangeEnd]
          /\ StartUp(step) =>
               CurrentRange' = [start |-> Min2(MaxLevel, similarityRangeStart + step),
                                end |-> similarityRangeEnd]
          /\ EndDown(step) =>
               CurrentRange' = [start |-> similarityRangeStart,
                                end |-> Max2(MinLevel, similarityRangeEnd - step)]
          /\ EndUp(step) =>
               CurrentRange' = [start |-> similarityRangeStart,
                                end |-> Min2(similarityRangeStart, similarityRangeEnd + step)]
     /\ (isManualRange /\ CurrentRange' # CurrentRange) => (ManualEdit \/ JumpOrNavigation)]_vars

\* the mount with the list whose top level holds three groups, no record decided
InitRange ==
  /\ InitWith(BatchConfigs)
  /\ backend = [f \in Files |-> "unknown"]

\* every operation that sets the range: paging, jumps, the range controls,
\* the target, reloads and page submissions whose calls succeed
NextRange ==
  \/ \E ok \in BOOLEAN : InitializeGroupsFinish(ok)
  \/ \E ok \in BOOLEAN : StatusLoadComplete(ok)
  \/ GoToNextPage
  \/ GoToPreviousPage
  \/ JumpToMin
  \/ JumpToMax
  \/ \E step \in RangeSteps : StartDown(step)
  \/ \E step \in RangeSteps : StartUp(step)
  \/ \E newStart \in SliderPoints : StartSlider(newStart)
  \/ \E step \in RangeSteps : EndDown(step)
  \/ \E step \in RangeSteps : EndUp(step)
  \/ \E newEnd \in SliderPoints : EndSlider(newEnd)
  \/ \E t \in TargetChoices : SetTargetGroupsPerPage(t)
  \/ Reload
  \/ HandleConfirmSubmitAll
  \/ \E c \in inFlight : SubmitGroupReturns(c, TRUE)
  \/ SubmitFinish
  \/ SuccessModalOk

SpecRange == InitRange /\ [][NextRange]_vars

\* C26: the current range and every entry of pageHistory have start >= end,
\* whatever sequence of next, previous, jumps, range edits, target changes,
\* reloads and post-submit advances led to the state.
C26_RangesAreOrdered ==
  /\ similarityRangeStart >= similarityRangeEnd
  /\ \A i \in 1..Len(pageHistory) : pageHistory[i].start >= pageHistory[i].end

\* a coarse step that would have crossed the other bound was clamped to it
C26_Witness ==
  /\ rangeOrigin = "manual"
  /\ similarityRangeStart = similarityRangeEnd
  /\ similarityRangeStart \notin LevelSet

\* ------------------------------------------------------------ session store
\* the store under two subjects: the view of the subject under review
\* (mount, reload, jumps, toggles), views of the other subject, the home
\* page and the summary pages
NextStore ==
  \/ \E ok \in BOOLEAN : InitializeGroupsFinish(ok)
  \/ \E ok \in BOOLEAN : StatusLoadComplete(ok)
  \/ \E f \in Files, v \in BOOLEAN : HandleFileToggleAll(f, v)
  \/ JumpToMin
  \/ JumpToMax
  \/ Reload
  \/ \E t \in TargetChoices, m \in BOOLEAN :
       OtherSubjectSaves(DefaultRangeStart, DefaultRangeEnd, t, m)
  \/ \E s \in Subjects : StartAgain(s)
  \/ \E s \in Subjects : HandleReturnHome(s)

SpecStore == Init /\ [][NextStore]_vars

\* a step that wrote a session of the subject
SavedFor(subject) == session' # session /\ session'.exists /\ session'.subject = subject

\* C27: the store keeps one record per subject: a save for one subject
\* leaves what load returns for every other subject, so after save(A) and
\* save(B) both load(A) and load(B) return what was saved.
C27_OneRecordPerSubject ==
  [][\A a \in Subjects, b \in Subjects :
       (a # b /\ SavedFor(b)) =>
          /\ LoadSession(session', b) = session'
          /\ LoadSession(session', a) = LoadSession(session, a)]_vars

\* C28: load(subject) returns the stored session exactly when it belongs to
\* the subject, and no operation done for a subject X (start again for X,
\* return home from the summary page of X) changes what load returns for
\* another subject Y.
C28_ClearSparesOtherSubjects ==
  [][/\ \A s \in Subjects :
          /\ LoadSession(session', s).exists => LoadSession(session', s).subject = s
          /\ (session'.exists /\ session'.subject = s) => LoadSession(session', s) = session'
     /\ \A x \in Subjects, y \in Subjects :
          (x # y /\ (StartAgain(x) \/ HandleReturnHome(x))) =>
             LoadSession(session', y) = LoadSession(session, y)]_vars

\* the mount with a short list, no record decided
InitResume ==
  /\ InitWith(Configs)
  /\ backend = [f \in Files |-> "unknown"]

\* the operations that change the range, the target or the flag, reloads,
\* and a view of the other subject that takes the session key
NextResume ==
  \/ \E ok \in BOOLEAN : InitializeGroupsFinish(ok)
  \/ \E ok \in BOOLEAN : StatusLoadComplete(ok)
  \/ GoToNextPage
  \/ GoToPreviousPage
  \/ JumpToMin
  \/ JumpToMax
  \/ \E step \in RangeSteps : StartDown(step)
  \/ \E step \in RangeSteps : StartUp(step)
  \/ \E newStart \in SliderPoints : StartSlider(newStart)
  \/ \E step \in RangeSteps : EndDown(step)
  \/ \E step \in RangeSteps : EndUp(step)
  \/ \E newEnd \in SliderPoints : EndSlider(newEnd)
  \/ \E t \in TargetChoices : SetTargetGroupsPerPage(t)
  \/ Reload
  \/ OtherSubjectSaves(DefaultRangeStart, DefaultRangeEnd, DefaultTargetGroups, FALSE)

SpecResume == InitResume /\ [][NextResume]_vars

\* the range, the target and the flag the view holds
Cursor ==
  [start |-> similarityRangeStart, end |-> similarityRangeEnd,
   target |-> targetGroupsPerPage, isManualRange |-> isManualRange]

\* the same values as the session of the subject holds them in the store
Persisted(store) ==
  LET s == LoadSession(store, Subject)
  IN [start |-> s.start, end |-> s.end, target |-> s.target, isManualRange |-> s.isManualRange]

C30_OverridesSurviveReload ==
  /\ [][\A f \in Files, v \in BOOLEAN :
          HandleFileToggleAll(f, v) =>
             (f \in DOMAIN CheckedFiles(session') /\ CheckedFiles(session')[f] = v)]_vars
  /\ [](\A f \in PageFiles :
          (/\ rangeOrigin = "reload" /\ PageSettled /\ userModifiedFiles = {}
           /\ backend[f] = "unknown"
           /\ f \in DOMAIN CheckedFiles(session)) =>
             \A g \in PageGroupsOf(f) :
               IsChecked(autoSelections, fileStatuses, CheckedFiles(session), g, f)
                 = CheckedFiles(session)[f])

\* ------------------------------------------------ status and content loads
\* navigation on the short lists with both loads and their completions
InitLoad == InitWith(Configs)

NextLoad ==
  \/ \E ok \in BOOLEAN : InitializeGroupsFinish(ok)
  \/ \E ok \in BOOLEAN : StatusLoadComplete(ok)
  \/ MCQTimerFires
  \/ \E ok \in BOOLEAN : MCQLoadComplete(ok)
  \/ \E f \in Files, v \in BOOLEAN : HandleFileToggleAll(f, v)
  \/ ToggleCheckAllMode
  \/ GoToNextPage
  \/ GoToPreviousPage
  \/ JumpToMin
  \/ JumpToMax

SpecLoad == InitLoad /\ [][NextLoad]_vars

\* a status load, or a content load, that was started for another range than
\* the current one returns
StaleStatusReturn ==
  /\ \E ok \in BOOLEAN : StatusLoadComplete(ok)
  /\ <<statusLoad.start, statusLoad.end>> # <<similarityRangeStart, similarityRangeEnd>>

StaleContentReturn ==
  /\ \E ok \in BOOLEAN : MCQLoadComplete(ok)
  /\ <<mcqLoad.start, mcqLoad.end>> # <<similarityRangeStart, similarityRangeEnd>>

\* C31: a load started for range R1 that returns after the range has become
\* another range R2 is not applied: the status cache is not written and R1 is
\* not recorded as the last loaded range.
C31_StaleLoadNotApplied ==
  [][/\ StaleStatusReturn
        => /\ fileStatuses' = fileStatuses
           /\ lastLoadedRange' # <<statusLoad.start, statusLoad.end>>
     /\ StaleContentReturn => fileStatuses' = fileStatuses]_vars

\* the last status load recorded is the one of the current range and the
\* cache holds the status the external store has for every record of the page
RangeLoaded ==
  /\ lastLoadedRange = <<similarityRangeStart, similarityRangeEnd>>
  /\ PageFiles # {}
  /\ \A f \in PageFiles : fileStatuses[f] = backend[f]

\* a step that sends a batchFileData request: a status load or a content
\* load starts
RequestIssued ==
  \/ ~statusLoad.active /\ statusLoad'.active
  \/ ~mcqLoad.active /\ mcqLoad'.active

\* C32: one status load at most is in flight, and while the range stays the
\* same no load trigger sends a second request for a range whose load has
\* completed successfully.
C32_LoadDeduplication ==
  [][/\ RangeLoaded
     /\ <<similarityRangeStart', similarityRangeEnd'>> = <<similarityRangeStart, similarityRangeEnd>>
     => ~RequestIssued]_vars

\* C33: a status load or a content load that fails changes no selection, no
\* user-modified mark and no entry of the status cache, and leaves its loading
\* flag cleared.
C33_FailedLoadChangesNothing ==
  [][/\ StatusLoadComplete(FALSE)
        => /\ autoSelections' = autoSelections
           /\ userModifiedFiles' = userModifiedFiles
           /\ fileStatuses' = fileStatuses
           /\ ~statusLoad'.active
     /\ MCQLoadComplete(FALSE)
        => /\ autoSelections' = autoSelections
           /\ userModifiedFiles' = userModifiedFiles
           /\ fileStatuses' = fileStatuses
           /\ ~mcqLoad'.active]_vars

\* a load has failed after the user changed a selection of a page whose
\* statuses are partly cached
C33_Witness ==
  /\ ~statusLoad.active /\ ~mcqLoad.active
  /\ lastLoadedRange = <<similarityRangeStart, similarityRangeEnd>>
  /\ userModifiedFiles # {}
  /\ \E f \in PageFiles : fileStatuses[f] = "none"
  /\ \E f \in Files : fileStatuses[f] # "none"

\* the status load recorded last was one of range (start, end) that failed:
\* a record of that range has no entry in the cache
FailedLoadRecorded(start, end) ==
  /\ lastLoadedRange = <<start, end>>
  /\ \E f \in FilesOfGroups(GroupsInRange(start, end)) : fileStatuses[f] = "none"

\* C34: after the status load of range R failed, the next load trigger for R
\* (the range becomes R while no status load is in flight) sends a new
\* request: the failed load has not marked R as loaded.
C34_RetryOnNextTrigger ==
  [][/\ <<similarityRangeStart', similarityRangeEnd'>> # <<similarityRangeStart, similarityRangeEnd>>
     /\ FailedLoadRecorded(similarityRangeStart', similarityRangeEnd')
     /\ ~statusLoad.active
     => /\ statusLoad'.active
        /\ <<statusLoad'.start, statusLoad'.end>> = <<similarityRangeStart', similarityRangeEnd'>>]_vars

\* ------------------------------------------------------- best-effort calls
\* the best-effort calls of a page submission
TelemetryCalls == {"summaryBefore", "summaryAfter", "trackRemoved"}

\* page submissions on the short lists while the backend rejects any of the
\* best-effort calls
InitTelemetry == InitWithOutages(Configs, SUBSET TelemetryCalls)

NextTelemetry ==
  \/ \E ok \in BOOLEAN : InitializeGroupsFinish(ok)
  \/ \E ok \in BOOLEAN : StatusLoadComplete(ok)
  \/ GoToNextPage
  \/ HandleConfirmSubmitAll
  \/ \E c \in inFlight, ok \in BOOLEAN : SubmitGroupReturns(c, ok)
  \/ SubmitFinish
  \/ SuccessModalOk

SpecTelemetry == InitTelemetry /\ [][NextTelemetry]_vars

\* C35: a rejected trackRemoved or getSummary call does not fail the
\* submission: the confirmed submission starts, and once every submitGroup
\* call succeeded the page is completed, the success modal is shown, no error
\* is shown and the submitting flag is cleared.
C35_BestEffortCallsDoNotFail ==
  [][/\ HandleConfirmSubmitAll => submitting' /\ ~errorShown'
     /\ SubmitFinish => /\ pageCompleted' /\ showSuccessModal'
                        /\ ~errorShown' /\ ~submitting']_vars

\* a page submission has succeeded while every best-effort call was rejected
C35_Witness ==
  /\ telemetryDown = TelemetryCalls
  /\ lastRun.done
  /\ pageCompleted /\ showSuccessModal /\ ~errorShown /\ ~submitting

\* C36: the page submission and Next use the same next-page logic: the next
\* range a fully successful submission stores for the advance is the range
\* Next would move to from the same state, whenever a next page exists, also
\* for a range with start = end and for an end at the minimum level.
C36_SubmitUsesNextLogic ==
  [][(SubmitFinish /\ showSuccessModal'
        /\ HasNextPage(similarityRangeStart, similarityRangeEnd)) =>
       [start |-> nextPageInfo'.start, end |-> nextPageInfo'.end]
         = NextOf([start |-> similarityRangeStart, end |-> similarityRangeEnd])]_vars

\* the advance of the success modal to the stored next range
SubmitAdvance == SuccessModalOk /\ nextPageInfo.set /\ nextPageInfo.hasNextPage

\* C37: paging makes progress: Next, and the advance after a page
\* submission, move to a range whose start is strictly below the current
\* start, so a finite number of them reaches a range without a next page.
C37_PagingMakesProgress ==
  [][(GoToNextPage \/ SubmitAdvance) => similarityRangeStart' < similarityRangeStart]_vars

\* navigation with both loads when every backend call succeeds
NextLoadOk ==
  \/ InitializeGroupsFinish(TRUE)
  \/ StatusLoadComplete(TRUE)
  \/ MCQTimerFires
  \/ MCQLoadComplete(TRUE)
  \/ GoToNextPage
  \/ GoToPreviousPage
  \/ JumpToMin
  \/ JumpToMax

SpecLoadOk == InitLoad /\ [][NextLoadOk]_vars

\* no request is in flight and no timer is pending: while the range stays
\* the same nothing more is loaded
LoadsQuiescent == ~initializing /\ ~statusLoad.active /\ ~mcqLoad.active /\ ~mcqLoad.timer

\* C38: once the backend calls have completed and the range stays fixed, the
\* status of every record of the current page is in the cache, also when the
\* range changed while a load for the previous range was in flight.
C38_StatusLoadsEventuallyCurrent ==
  LoadsQuiescent => \A f \in PageFiles : fileStatuses[f] # "none"

\* C39: once a page submission has reported its failure, its submitGroup
\* calls still in flight write nothing: when such a call returns, the status
\* cache and the stored overrides stay as they are.
C39_NoWritesAfterFailure ==
  [][\A c \in inFlight : (~c.cur /\ SubmitGroupReturns(c, TRUE)) =>
       /\ fileStatuses' = fileStatuses
       /\ CheckedFiles(session') = CheckedFiles(session)]_vars

\* C40: a page submission starts only while none is running and the page is
\* neither completed, initialising, loading its statuses nor unready; and a
\* completed page stops being completed only by a change of the range.
C40_SubmitGating ==
  /\ [][HandleConfirmSubmitAll =>
          /\ ~submitting /\ ~submitActive
          /\ ~statusLoad.active /\ ~pageCompleted /\ ~initializing
          /\ AllGroupsHaveAutoSelections]_vars
  /\ [][(pageCompleted /\ ~pageCompleted') =>
          <<similarityRangeStart', similarityRangeEnd'>> # <<similarityRangeStart, similarityRangeEnd>>]_vars

====
